---------------------------- MODULE Spec2Model ----------------------------
(***************************************************************************)
(* A state-machine model of the openclaw-china channel plug-ins:           *)
(*   - the inbound handlers of the four webhook/stream channels            *)
(*     (policy gate, then the dispatch pipeline);                          *)
(*   - the DingTalk AI-card streamer (streamAICard / finishAICard and the  *)
(*     handler handleAICardStreaming that drives them);                    *)
(*   - the inbound media download routines and their size caps;            *)
(*   - the WeCom-App access-token cache and the outbound senders;          *)
(*   - the reply pipeline of one inbound message and its chunk sends;      *)
(*   - the QQ handler's attachment and voice-transcription steps;          *)
(*   - the media routing of the WeCom-App outbound adapter;                *)
(*   - the WeCom-App account resolution and gateway start/stop;            *)
(*   - the pure routines: account resolution, target parsing, chunking.    *)
(* Each subsystem has its own next-state relation and specification; the   *)
(* variables of the other subsystems stay unchanged under it.              *)
(***************************************************************************)
EXTENDS Integers, Sequences, FiniteSets, TLC

VARIABLES
    h,        \* the inbound handler: its position, message, config, effects
    card,     \* the AICardInstance and the wire log of the card API
    run,      \* handleAICardStreaming: position, accumulated, lastUpdateTime
    calls,    \* the streamAICard invocations that have not resolved yet
    now,      \* Date.now(), in ms
    dl,       \* one media download: routine, response, bytes read, file
    tok,      \* the access-token cache and the getAccessToken calls
    out,      \* one outbound send: entry point, position, requests, result
    rp,       \* one inbound message's reply pipeline and its platform sends
    qq,       \* one QQ inbound message: attachments, ASR, dispatch
    sm,       \* one WeCom-App outbound.sendMedia call: routing and messages
    gw,       \* the WeCom-App gateway: webhook routes, unregister hooks, status
    fn        \* the last call of a pure routine: its name, input and result

vars == <<h, card, run, calls, now, dl, tok, out, rp, qq, sm, gw, fn>>

cardVars == <<card, run, calls, now>>

-----------------------------------------------------------------------------
(* Bounds of the model.                                                    *)

NumSenders == 2

NumGroups == 2

Senders == 1..NumSenders

Groups == 1..NumGroups

-----------------------------------------------------------------------------
(* 4.E Policy gate.  checkDmPolicy / checkGroupPolicy live in the shared   *)
(* package (@openclaw-china/shared), whose source is not part of src/.     *)

checkDmPolicy(dmPolicy, senderId, allowFrom) ==
    CASE dmPolicy = "open"      -> TRUE
      [] dmPolicy = "pairing"   -> TRUE
      [] dmPolicy = "allowlist" -> senderId \in allowFrom
      [] OTHER                  -> FALSE

checkGroupPolicy(groupPolicy, conversationId, groupAllowFrom, requireMention, mentionedBot) ==
    /\ groupPolicy # "disabled"
    /\ (groupPolicy = "allowlist" => conversationId \in groupAllowFrom)
    /\ (requireMention => mentionedBot)

-----------------------------------------------------------------------------
(* Inbound messages and channel configuration.                             *)

Channels == {"dingtalk", "wecom", "wecom-app", "qqbot"}

\* Who is @-mentioned in a group message: the bot itself, another member.
AtTargets == {"bot", "other"}

\* A raw platform message.  conversationId is 0 for a direct chat.
DirectMessages ==
    [chatType : {"direct"}, senderId : Senders, conversationId : {0},
     atUsers : {{}}]

GroupMessages ==
    [chatType : {"group"}, senderId : Senders, conversationId : Groups,
     atUsers : SUBSET AtTargets]

Messages == DirectMessages \cup GroupMessages

\* The policy block of channels.<id>; "unset" is a key the config omits.
Configs ==
    [dmPolicy       : {"unset", "open", "pairing", "allowlist", "disabled"},
     groupPolicy    : {"unset", "open", "allowlist", "disabled"},
     requireMention : {"unset", "true", "false"},
     allowFrom      : {1..k : k \in 0..NumSenders},
     groupAllowFrom : {1..k : k \in 0..NumGroups}]

\* value ?? fallback
OrElse(value, fallback) == IF value = "unset" THEN fallback ELSE value

\* a boolean key: value ?? fallback
FlagOrElse(value, fallback) ==
    IF value = "unset" THEN fallback ELSE value = "true"

\* Ground truth about the message: the bot is among the @-mentioned users.
BotMentioned(m) == "bot" \in m.atUsers

-----------------------------------------------------------------------------
(* DingTalk: parseDingtalkMessage and the policy check of                  *)
(* handleDingtalkMessage.                                                  *)

\* resolveMentionedBot: any @ counts as a mention of the bot.
resolveMentionedBot(m) == m.atUsers # {}

DingtalkPolicy(cfg, m) ==
    IF m.chatType = "group"
    THEN checkGroupPolicy(OrElse(cfg.groupPolicy, "allowlist"),
                          m.conversationId, cfg.groupAllowFrom,
                          FlagOrElse(cfg.requireMention, TRUE),
                          resolveMentionedBot(m))
    ELSE checkDmPolicy(OrElse(cfg.dmPolicy, "pairing"), m.senderId,
                       cfg.allowFrom)

(* WeCom (AI robot): the policy check of dispatchWecomMessage.  The group  *)
(* resolvers come from the channel's config.ts, which is not under src/.   *)

resolveGroupPolicy(cfg) == OrElse(cfg.groupPolicy, "open")

resolveRequireMention(cfg) == FlagOrElse(cfg.requireMention, TRUE)

WecomPolicy(cfg, m) ==
    IF m.chatType = "group"
    THEN checkGroupPolicy(resolveGroupPolicy(cfg), m.conversationId,
                          cfg.groupAllowFrom, resolveRequireMention(cfg),
                          TRUE)
    ELSE LET dmPolicyRaw == OrElse(cfg.dmPolicy, "pairing") IN
         /\ dmPolicyRaw # "disabled"
         /\ checkDmPolicy(dmPolicyRaw, m.senderId, cfg.allowFrom)

(* WeCom-App: every message is a direct message (resolveChatId returns the *)
(* sender); the policy check of dispatchWecomAppMessage.                   *)

resolveDmPolicy(cfg) == OrElse(cfg.dmPolicy, "pairing")

WecomAppPolicy(cfg, m) ==
    checkDmPolicy(resolveDmPolicy(cfg), m.senderId, cfg.allowFrom)

(* QQ: the platform event that carries a message, resolveInbound and       *)
(* shouldHandleMessage.                                                    *)

\* Group messages reach the bot as GROUP_AT_MESSAGE_CREATE when they @ it;
\* a group message without the @ is another event type.
QQEventType(m) ==
    IF m.chatType = "direct" THEN "C2C_MESSAGE_CREATE"
    ELSE IF BotMentioned(m) THEN "GROUP_AT_MESSAGE_CREATE"
    ELSE "GROUP_MESSAGE_CREATE"

\* resolveInbound: TRUE when the event parses to a QQInboundMessage.
resolveInbound(eventType) ==
    eventType \in {"C2C_MESSAGE_CREATE", "GROUP_AT_MESSAGE_CREATE",
                   "AT_MESSAGE_CREATE", "DIRECT_MESSAGE_CREATE"}

\* parseGroupMessage / parseChannelMessage set mentionedBot: true,
\* parseC2CMessage / parseDirectMessage set it false.
QQParsedMention(eventType) ==
    eventType \in {"GROUP_AT_MESSAGE_CREATE", "AT_MESSAGE_CREATE"}

shouldHandleMessage(cfg, m) ==
    IF m.chatType = "direct"
    THEN checkDmPolicy(OrElse(cfg.dmPolicy, "open"), m.senderId,
                       cfg.allowFrom)
    ELSE checkGroupPolicy(OrElse(cfg.groupPolicy, "open"),
                          m.conversationId, cfg.groupAllowFrom,
                          FlagOrElse(cfg.requireMention, TRUE),
                          QQParsedMention(QQEventType(m)))

\* The policy result {allowed} each handler computes for a message.
PolicyAllowed(chan, cfg, m) ==
    CASE chan = "dingtalk"  -> DingtalkPolicy(cfg, m)
      [] chan = "wecom"     -> WecomPolicy(cfg, m)
      [] chan = "wecom-app" -> WecomAppPolicy(cfg, m)
      [] chan = "qqbot"     -> shouldHandleMessage(cfg, m)

\* The messages a channel's transport can hand to its handler.
ChannelMessages(chan) ==
    IF chan = "wecom-app" THEN DirectMessages ELSE Messages

-----------------------------------------------------------------------------
(* The inbound handlers: handleDingtalkMessage, dispatchWecomMessage,      *)
(* dispatchWecomAppMessage, handleQQBotDispatch/dispatchToAgent.           *)
(* h.effects lists, in order, what the handler has done for the current    *)
(* message: "typing", "route", "media", "session", "dispatch", "reply".    *)

MaxReplies == 1

NoMessage == [chatType |-> "none", senderId |-> 0, conversationId |-> 0, atUsers |-> {}]

NoConfig == [dmPolicy |-> "unset", groupPolicy |-> "unset", requireMention |-> "unset", allowFrom |-> {}, groupAllowFrom |-> {}]

HandlerIdle ==
    [pc |-> "idle", chan |-> "none", msg |-> NoMessage, cfg |-> NoConfig,
     allowed |-> "none", effects |-> <<>>]

Effects == {h.effects[i] : i \in 1..Len(h.effects)}

\* The step that follows the policy gate and the Host API presence checks.
AfterRoute(chan) == IF chan = "dingtalk" THEN "dispatch" ELSE "media"

\* Receive without the early return on a rejected policy result.
ReceiveNoReturn(chan, m, cfg, coreReady) ==
    /\ h.pc = "idle"
    /\ LET parsed  == chan # "qqbot" \/ resolveInbound(QQEventType(m))
           allowed == parsed /\ PolicyAllowed(chan, cfg, m)
       IN h' = [pc      |-> IF parsed /\ coreReady THEN "route" ELSE "done",
                chan    |-> chan,
                msg     |-> m,
                cfg     |-> cfg,
                allowed |-> IF ~parsed THEN "none"
                            ELSE IF allowed THEN "yes" ELSE "no",
                effects |-> <<>>]
    /\ UNCHANGED <<card, run, calls, now, dl, tok, out, rp, qq, sm, gw, fn>>

\* A handler is entered with one message.  The synchronous prefix runs in
\* one step: parse, policy check, and the checks that the Host runtime
\* offers routing and a dispatcher (coreReady).
Receive(chan, m, cfg, coreReady) ==
    /\ h.pc = "idle"
    /\ LET parsed  == chan # "qqbot" \/ resolveInbound(QQEventType(m))
           allowed == parsed /\ PolicyAllowed(chan, cfg, m)
       IN h' = [pc      |-> IF allowed /\ coreReady THEN "route" ELSE "done",
                chan    |-> chan,
                msg     |-> m,
                cfg     |-> cfg,
                allowed |-> IF ~parsed THEN "none"
                            ELSE IF allowed THEN "yes" ELSE "no",
                effects |-> <<>>]
    /\ UNCHANGED <<card, run, calls, now, dl, tok, out, rp, qq, sm, gw, fn>>

\* routing.resolveAgentRoute; QQ first sends the typing indicator to a C2C
\* peer.
ResolveRoute ==
    /\ h.pc = "route"
    /\ h' = [h EXCEPT
              !.pc = AfterRoute(h.chan),
              !.effects =
                  IF h.chan = "qqbot" /\ h.msg.chatType = "direct"
                  THEN @ \o <<"typing", "route">>
                  ELSE Append(@, "route")]
    /\ UNCHANGED <<card, run, calls, now, dl, tok, out, rp, qq, sm, gw, fn>>

\* processMediaInMessage / buildInboundBody / resolveInboundAttachmentsForAgent
ProcessMedia ==
    /\ h.pc = "media"
    /\ h' = [h EXCEPT !.pc = "session", !.effects = Append(@, "media")]
    /\ UNCHANGED <<card, run, calls, now, dl, tok, out, rp, qq, sm, gw, fn>>

\* Whether the handler hands recordInboundSession an updateLastRoute
\* {sessionKey, channel, to, accountId}: only dispatchToAgent of QQ builds
\* one, for a message that is neither a group nor a channel message.
PassesUpdateLastRoute(chan, m) ==
    chan = "qqbot" /\ m.chatType = "direct"

\* session.recordInboundSession, skipped when the Host gives no store path.
RecordSession(hasStore) ==
    /\ h.pc = "session"
    /\ h' = [h EXCEPT
              !.pc = "dispatch",
              !.effects = IF ~hasStore THEN @
                          ELSE IF PassesUpdateLastRoute(h.chan, h.msg)
                          THEN @ \o <<"session", "lastRoute">>
                          ELSE Append(@, "session")]
    /\ UNCHANGED <<card, run, calls, now, dl, tok, out, rp, qq, sm, gw, fn>>

\* dispatchReplyFromConfig / dispatchReplyWithBufferedBlockDispatcher starts.
DispatchReply ==
    /\ h.pc = "dispatch"
    /\ h' = [h EXCEPT !.pc = "replying", !.effects = Append(@, "dispatch")]
    /\ UNCHANGED <<card, run, calls, now, dl, tok, out, rp, qq, sm, gw, fn>>

\* The Host calls deliver, which sends one reply to the conversation.
DeliverReply ==
    /\ h.pc = "replying"
    /\ Cardinality({i \in 1..Len(h.effects) : h.effects[i] = "reply"}) < MaxReplies
    /\ h' = [h EXCEPT !.effects = Append(@, "reply")]
    /\ UNCHANGED <<card, run, calls, now, dl, tok, out, rp, qq, sm, gw, fn>>

\* Whether the handler itself calls markDispatchIdle once the dispatch has
\* returned: the handlers that build their own dispatcher do, a handler
\* that hands deliver to dispatchReplyWithBufferedBlockDispatcher does not.
MarksIdle(chan, buffered) ==
    chan = "dingtalk" \/ (chan = "qqbot" /\ ~buffered)

\* The dispatch resolves and the handler returns.
DispatchDone(buffered) ==
    /\ h.pc = "replying"
    /\ h' = [h EXCEPT
              !.pc = "done",
              !.effects = IF MarksIdle(h.chan, buffered)
                          THEN Append(@, "idle") ELSE @]
    /\ UNCHANGED <<card, run, calls, now, dl, tok, out, rp, qq, sm, gw, fn>>

\* The handler's promise has settled; the transport hands over the next
\* message.
HandlerReturn ==
    /\ h.pc = "done"
    /\ h' = HandlerIdle
    /\ UNCHANGED <<card, run, calls, now, dl, tok, out, rp, qq, sm, gw, fn>>

NextInbound ==
    \/ /\ h.pc = "idle"
       /\ \E chan \in Channels, cfg \in Configs, coreReady \in BOOLEAN :
             \E m \in ChannelMessages(chan) : Receive(chan, m, cfg, coreReady)
    \/ ResolveRoute
    \/ ProcessMedia
    \/ \E hasStore \in BOOLEAN : RecordSession(hasStore)
    \/ DispatchReply
    \/ DeliverReply
    \/ \E buffered \in BOOLEAN : DispatchDone(buffered)
    \/ HandlerReturn

-----------------------------------------------------------------------------
(* 4.J Card streamer: streamAICard / finishAICard (card.ts) driven by      *)
(* handleAICardStreaming (bot.ts).  Texts are sequences of characters.     *)
(* card.log is the wire log of the card API: one entry per PUT, in the     *)
(* order the PUTs were issued, with the outcome once the response is in.   *)

MaxChunks == 2

MaxTicks == 3

StartClock == 1000

TickMs == 100

updateInterval == 300

\* The texts the Host dispatcher may pass to deliver; " " is a blank text,
\* and "ab" after "a" is a reply that arrives as growing snapshots.
ChunkTexts == {<<" ">>, <<"a">>, <<"b">>, <<"a", "b">>}

\* textChunkLimit values of the channel config, in characters.
ChunkLimits == {1, 2}

\* `Response interrupted: <err>`, the banner of the catch path.
Banner == <<"!">>

\* !text.trim()
IsBlank(text) == \A i \in 1..Len(text) : text[i] = " "

RECURSIVE ConcatNonBlank(_)
\* The reply text so far: the non-blank texts given to deliver, in order.
ConcatNonBlank(texts) ==
    IF texts = <<>> THEN <<>>
    ELSE LET rest == ConcatNonBlank(SubSeq(texts, 1, Len(texts) - 1))
             last == texts[Len(texts)]
         IN IF IsBlank(last) THEN rest ELSE rest \o last

RECURSIVE SliceChunks(_, _)
\* for (i = 0; i < text.length; i += limit) text.slice(i, i + limit)
SliceChunks(text, limit) ==
    IF Len(text) = 0 THEN <<>>
    ELSE IF Len(text) <= limit THEN <<text>>
    ELSE <<SubSeq(text, 1, limit)>>
             \o SliceChunks(SubSeq(text, limit + 1, Len(text)), limit)

\* The card as createAICard returns it, with nothing on the wire yet.
NewCard == [inputingStarted |-> FALSE, log |-> <<>>]

\* handleAICardStreaming before it runs.
NewRun ==
    [pc |-> "start", accumulated |-> <<>>, lastUpdateTime |-> 0,
     delivered |-> <<>>, limit |-> 1, error |-> FALSE,
     pending |-> <<>>, fallback |-> <<>>, sendFailed |-> FALSE]

\* PUT /v1.0/card/instances with flowStatus, as issued by invocation c.
StatusPut(c, flowStatus, content) ==
    [api |-> "status", flowStatus |-> flowStatus, content |-> content,
     isFull |-> FALSE, isFinalize |-> FALSE, by |-> c.by, k |-> c.k,
     at |-> now, readNow |-> c.readNow, res |-> "pending"]

\* PUT /v1.0/card/streaming, as issued by invocation c.
StreamPut(c) ==
    [api |-> "stream", flowStatus |-> "none", content |-> c.content,
     isFull |-> TRUE, isFinalize |-> c.finished, by |-> c.by, k |-> c.k,
     at |-> now, readNow |-> c.readNow, res |-> "pending"]

\* An invocation of streamAICard(card, content, finished) by a deliver
\* callback ("deliver", chunk k) or by finishAICard ("finish" on the normal
\* path, "errfinish" in the catch block).
Invocation(by, k, content, finished, readNow) ==
    [by |-> by, k |-> k, content |-> content, finished |-> finished,
     readNow |-> readNow]

\* streamAICard up to its first await: the INPUTING status PUT when the
\* card has not started inputing, else the streaming PUT.
FirstPut(c) ==
    IF ~card.inputingStarted
    THEN StatusPut(c, "INPUTING", <<>>)
    ELSE StreamPut(c)

Pending(i) == card.log[i].res = "pending"

InFlight == {i \in 1..Len(card.log) : Pending(i)}

ActiveDelivers == {c \in calls : c.by = "deliver"}

\* The invocation that awaits log entry i.
Caller(i) == CHOOSE c \in calls : c.by = card.log[i].by /\ c.k = card.log[i].k

\* log with entry i settled as res
Settle(i, res) == [card.log EXCEPT ![i].res = res]

\* accumulated.trim() ? accumulated : `Response interrupted: <err>`
FallbackText == IF IsBlank(run.accumulated) THEN Banner ELSE run.accumulated

\* handleAICardStreaming starts: it takes the runtime's reply API and builds
\* the dispatcher; without a dispatcher it returns at once.
StartStreaming(limit, available) ==
    /\ run.pc = "start"
    /\ run' = [run EXCEPT !.pc = IF available THEN "dispatching" ELSE "done",
                          !.limit = limit]
    /\ UNCHANGED <<h, card, calls, now, dl, tok, out, rp, qq, sm, gw, fn>>

\* accumulated = text: the running buffer is overwritten, not appended to.
AccumulateOverwriting(text) == text

\* accumulated += text
Accumulate(text) == run.accumulated \o text

\* The throttle never closes.
ThrottleAlwaysOpen == TRUE

\* now - lastUpdateTime >= updateInterval, with now = Date.now()
ThrottleOpen == now - run.lastUpdateTime >= updateInterval

\* The body of the deliver callback for one payload text.
Deliver(text) ==
    /\ run.pc = "dispatching"
    /\ Len(run.delivered) < MaxChunks
    /\ LET acc == Accumulate(text)
           c   == Invocation("deliver", Len(run.delivered) + 1, acc, FALSE, now)
       IN IF IsBlank(text)
          THEN /\ run' = [run EXCEPT !.delivered = Append(@, text)]
               /\ UNCHANGED <<card, calls>>
          ELSE IF ThrottleOpen
          THEN /\ run' = [run EXCEPT !.delivered = Append(@, text),
                                     !.accumulated = acc]
               /\ calls' = calls \cup {c}
               /\ card' = [card EXCEPT !.log = Append(@, FirstPut(c))]
          ELSE /\ run' = [run EXCEPT !.delivered = Append(@, text),
                                     !.accumulated = acc]
               /\ UNCHANGED <<card, calls>>
    /\ UNCHANGED <<h, now, dl, tok, out, rp, qq, sm, gw, fn>>

\* The Host dispatcher calls deliver once the previous call has resolved.
HostDeliver(text) ==
    /\ ActiveDelivers = {}
    /\ Deliver(text)

\* A Host that calls deliver for the next chunk while the previous call is
\* still awaiting the card API.
HostDeliverOverlapping(text) ==
    /\ ActiveDelivers # {}
    /\ Deliver(text)

\* streamAICard or finishAICard throws in invocation c; log2 is the wire log.
\*  - in deliver: the Host dispatcher catches and reports to onError;
\*  - in the post-dispatch finishAICard: the handler's catch block runs and
\*    calls finishAICard(card, errorMsg);
\*  - in the catch block's finishAICard: logged, then the fallback send.
Throws(c, log2) ==
    CASE c.by = "deliver" ->
           /\ calls' = calls \ {c}
           /\ card' = [card EXCEPT !.log = log2]
           /\ UNCHANGED run
      [] c.by = "finish" ->
           LET e == Invocation("errfinish", 0, Banner, TRUE, 0) IN
           /\ calls' = (calls \ {c}) \cup {e}
           /\ card' = [card EXCEPT
                         !.log = Append(log2, FirstPut(e))]
           /\ run' = [run EXCEPT !.pc = "errfinishing", !.error = TRUE]
      [] c.by = "errfinish" ->
           /\ calls' = calls \ {c}
           /\ card' = [card EXCEPT !.log = log2]
           /\ run' = [run EXCEPT !.pc = "fallback",
                        !.pending = SliceChunks(FallbackText, run.limit)]

\* streamAICard goes on to the streaming PUT whatever the INPUTING status
\* PUT answered.
InputingRespondsIgnoringFailure(i, ok) ==
    /\ i \in InFlight
    /\ card.log[i].api = "status"
    /\ card.log[i].flowStatus = "INPUTING"
    /\ card' = [inputingStarted |-> TRUE,
                log |-> Append(Settle(i, IF ok THEN "ok" ELSE "fail"),
                               StreamPut(Caller(i)))]
    /\ UNCHANGED <<run, calls, h, now, dl, tok, out, rp, qq, sm, gw, fn>>

\* The response to the INPUTING status PUT arrives.
InputingResponds(i, ok) ==
    /\ i \in InFlight
    /\ card.log[i].api = "status"
    /\ card.log[i].flowStatus = "INPUTING"
    /\ LET c == Caller(i) IN
       IF ok
       THEN /\ card' = [inputingStarted |-> TRUE,
                        log |-> Append(Settle(i, "ok"), StreamPut(c))]
            /\ UNCHANGED <<run, calls>>
       ELSE Throws(c, Settle(i, "fail"))
    /\ UNCHANGED <<h, now, dl, tok, out, rp, qq, sm, gw, fn>>

\* finishAICard goes on to the FINISHED status PUT whatever the finalize
\* streaming PUT answered.
StreamRespondsIgnoringFailure(i, ok) ==
    /\ i \in InFlight
    /\ card.log[i].api = "stream"
    /\ LET c == Caller(i)
           log2 == Settle(i, IF ok THEN "ok" ELSE "fail") IN
       IF c.by = "deliver"
       THEN /\ card' = [card EXCEPT !.log = log2]
            /\ calls' = calls \ {c}
            /\ run' = [run EXCEPT !.lastUpdateTime = c.readNow]
       ELSE /\ card' = [card EXCEPT
                          !.log = Append(log2,
                                         StatusPut(c, "FINISHED", c.content))]
            /\ UNCHANGED <<run, calls>>
    /\ UNCHANGED <<h, now, dl, tok, out, rp, qq, sm, gw, fn>>

\* The response to a streaming PUT arrives.
StreamResponds(i, ok) ==
    /\ i \in InFlight
    /\ card.log[i].api = "stream"
    /\ LET c == Caller(i) IN
       IF ~ok THEN Throws(c, Settle(i, "fail"))
       ELSE IF c.by = "deliver"
       THEN /\ card' = [card EXCEPT !.log = Settle(i, "ok")]
            /\ calls' = calls \ {c}
            /\ run' = [run EXCEPT !.lastUpdateTime = c.readNow]
       ELSE /\ card' = [card EXCEPT
                          !.log = Append(Settle(i, "ok"),
                                         StatusPut(c, "FINISHED", c.content))]
            /\ UNCHANGED <<run, calls>>
    /\ UNCHANGED <<h, now, dl, tok, out, rp, qq, sm, gw, fn>>

\* finishAICard returns in invocation c; log2 is the wire log.
FinishReturns(c, log2) ==
    /\ calls' = calls \ {c}
    /\ card' = [card EXCEPT !.log = log2]
    /\ run' = IF c.by = "finish"
              THEN [run EXCEPT !.pc = "done"]
              ELSE [run EXCEPT !.pc = "fallback",
                      !.pending = SliceChunks(FallbackText, run.limit)]

\* The response to the FINISHED status PUT arrives: OK, a non-OK HTTP
\* status (logged as a warning), or fetch throws (abort, network).
FinishedResponds(i, res) ==
    /\ i \in InFlight
    /\ card.log[i].api = "status"
    /\ card.log[i].flowStatus = "FINISHED"
    /\ LET c == Caller(i) IN
       IF res = "throw"
       THEN Throws(c, Settle(i, res))
       ELSE FinishReturns(c, Settle(i, res))
    /\ UNCHANGED <<h, now, dl, tok, out, rp, qq, sm, gw, fn>>

\* dispatchReplyFromConfig resolves, all deliver calls having resolved;
\* the handler marks the dispatcher idle and calls finishAICard.
DispatchCompletes ==
    /\ run.pc = "dispatching"
    /\ calls = {}
    /\ LET c == Invocation("finish", 0, run.accumulated, TRUE, 0) IN
       /\ calls' = {c}
       /\ card' = [card EXCEPT !.log = Append(@, FirstPut(c))]
    /\ run' = [run EXCEPT !.pc = "finishing"]
    /\ UNCHANGED <<h, now, dl, tok, out, rp, qq, sm, gw, fn>>

\* dispatchReplyFromConfig rejects: the catch block finishes the card with
\* the error banner.
DispatchThrows ==
    /\ run.pc = "dispatching"
    /\ calls = {}
    /\ LET e == Invocation("errfinish", 0, Banner, TRUE, 0) IN
       /\ calls' = {e}
       /\ card' = [card EXCEPT !.log = Append(@, FirstPut(e))]
    /\ run' = [run EXCEPT !.pc = "errfinishing", !.error = TRUE]
    /\ UNCHANGED <<h, now, dl, tok, out, rp, qq, sm, gw, fn>>

\* One iteration of the fallback loop: sendMessageDingtalk for the next
\* chunk; a failed send leaves the loop through the catch.
FallbackSend(ok) ==
    /\ run.pc = "fallback"
    /\ run.pending # <<>>
    /\ run' = IF ok
              THEN [run EXCEPT
                      !.fallback = Append(@, Head(run.pending)),
                      !.pending = Tail(@),
                      !.pc = IF Tail(run.pending) = <<>> THEN "done" ELSE @]
              ELSE [run EXCEPT !.pending = <<>>, !.sendFailed = TRUE,
                               !.pc = "done"]
    /\ UNCHANGED <<h, card, calls, now, dl, tok, out, rp, qq, sm, gw, fn>>

\* Time passes while the agent produces the reply.
Tick ==
    /\ run.pc = "dispatching"
    /\ now < StartClock + MaxTicks * TickMs
    /\ now' = now + TickMs
    /\ UNCHANGED <<h, card, run, calls, dl, tok, out, rp, qq, sm, gw, fn>>

NextCard ==
    \/ \E limit \in ChunkLimits, available \in BOOLEAN :
           StartStreaming(limit, available)
    \/ \E text \in ChunkTexts : HostDeliver(text)
    \/ \E i \in InFlight, ok \in BOOLEAN : InputingResponds(i, ok)
    \/ \E i \in InFlight, ok \in BOOLEAN : StreamResponds(i, ok)
    \/ \E i \in InFlight, res \in {"ok", "http", "throw"} :
           FinishedResponds(i, res)
    \/ DispatchCompletes
    \/ DispatchThrows
    \/ \E ok \in BOOLEAN : FallbackSend(ok)
    \/ Tick

NextCardOverlap ==
    \/ NextCard
    \/ \E text \in ChunkTexts : HostDeliverOverlapping(text)

-----------------------------------------------------------------------------
(* Inbound media downloads.  Sizes are counted in units of one body chunk. *)
(* downloadDingTalkFile and downloadWecomMediaToFile take a size limit;    *)
(* the WeCom downloadAndDecryptMedia takes none.                           *)

MaxLimit == 2
MaxBody == 4
MaxPad == 2

Routines ==
    {"downloadDingTalkFile", "downloadWecomMediaToFile",
     "downloadAndDecryptMedia", "fetchMediaFromUrl"}

NoFile == -1

DownloadIdle ==
    [pc |-> "idle", routine |-> "none", maxBytes |-> 0, size |-> 0,
     hasLength |-> FALSE, pad |-> 0, received |-> 0, file |-> NoFile]

\* pkcs7Unpad on a buffer of n units whose last byte says pad: the length
\* left, or NoFile when the padding is rejected.
pkcs7Unpad(n, pad) ==
    IF n = 0 \/ pad < 1 \/ pad > n THEN NoFile ELSE n - pad

\* A download starts: the configured limit, and what the server will send
\* (body size, whether it declares Content-Length, the PKCS#7 padding of an
\* encrypted WeCom body).
BeginDownload(routine, maxBytes, size, hasLength, pad) ==
    /\ dl.pc = "idle"
    /\ dl' = [DownloadIdle EXCEPT !.pc = "response", !.routine = routine,
                !.maxBytes = maxBytes, !.size = size,
                !.hasLength = hasLength, !.pad = pad]
    /\ UNCHANGED <<h, card, run, calls, now, tok, out, rp, qq, sm, gw, fn>>

\* downloadDingTalkFile starts on the body without looking at Content-Length.
DingTalkCheckLengthSkipped ==
    /\ dl.pc = "response"
    /\ dl.routine = "downloadDingTalkFile"
    /\ dl' = [dl EXCEPT !.pc = "reading"]
    /\ UNCHANGED <<h, card, run, calls, now, tok, out, rp, qq, sm, gw, fn>>

\* downloadDingTalkFile, step 3: Content-Length above the limit aborts
\* before the body is read.
DingTalkCheckLength ==
    /\ dl.pc = "response"
    /\ dl.routine = "downloadDingTalkFile"
    /\ dl' = [dl EXCEPT !.pc = IF dl.hasLength /\ dl.size > dl.maxBytes
                               THEN "rejected" ELSE "reading"]
    /\ UNCHANGED <<h, card, run, calls, now, tok, out, rp, qq, sm, gw, fn>>

\* downloadDingTalkFile rejects a running total that has reached the limit.
DingTalkReadOffByOne ==
    /\ dl.pc = "reading"
    /\ dl.routine = "downloadDingTalkFile"
    /\ IF dl.received < dl.size
       THEN dl' = [dl EXCEPT !.received = @ + 1,
                             !.pc = IF dl.received + 1 >= dl.maxBytes
                                    THEN "rejected" ELSE @]
       ELSE dl' = [dl EXCEPT !.pc = "saved", !.file = dl.received]
    /\ UNCHANGED <<h, card, run, calls, now, tok, out, rp, qq, sm, gw, fn>>

\* downloadDingTalkFile, steps 4 and 5: one reader.read() of the loop; a
\* running total above the limit throws, the end of the body writes the file.
DingTalkRead ==
    /\ dl.pc = "reading"
    /\ dl.routine = "downloadDingTalkFile"
    /\ IF dl.received < dl.size
       THEN dl' = [dl EXCEPT !.received = @ + 1,
                             !.pc = IF dl.received + 1 > dl.maxBytes
                                    THEN "rejected" ELSE @]
       ELSE dl' = [dl EXCEPT !.pc = "saved", !.file = dl.received]
    /\ UNCHANGED <<h, card, run, calls, now, tok, out, rp, qq, sm, gw, fn>>

\* downloadWecomMediaToFile: the Content-Length pre-check.
WecomAppCheckLength ==
    /\ dl.pc = "response"
    /\ dl.routine = "downloadWecomMediaToFile"
    /\ dl' = [dl EXCEPT
                !.pc = IF dl.hasLength /\ dl.maxBytes > 0
                          /\ dl.size > dl.maxBytes
                       THEN "rejected" ELSE "reading"]
    /\ UNCHANGED <<h, card, run, calls, now, tok, out, rp, qq, sm, gw, fn>>

\* downloadWecomMediaToFile: one reader.read() of the loop, then writeFile.
WecomAppRead ==
    /\ dl.pc = "reading"
    /\ dl.routine = "downloadWecomMediaToFile"
    /\ IF dl.received < dl.size
       THEN dl' = [dl EXCEPT
                     !.received = @ + 1,
                     !.pc = IF dl.maxBytes > 0 /\ dl.received + 1 > dl.maxBytes
                            THEN "rejected" ELSE @]
       ELSE dl' = [dl EXCEPT !.pc = "saved", !.file = dl.received]
    /\ UNCHANGED <<h, card, run, calls, now, tok, out, rp, qq, sm, gw, fn>>

\* downloadAndDecryptMedia, step 1: response.arrayBuffer() takes the whole
\* body, whatever its size.
WecomFetchBody ==
    /\ dl.pc = "response"
    /\ dl.routine = "downloadAndDecryptMedia"
    /\ dl' = [dl EXCEPT !.pc = "reading", !.received = dl.size]
    /\ UNCHANGED <<h, card, run, calls, now, tok, out, rp, qq, sm, gw, fn>>

\* downloadAndDecryptMedia, steps 2 and 3: decrypt, strip the padding,
\* write the file; a decryption error throws.
WecomDecryptAndSave ==
    /\ dl.pc = "reading"
    /\ dl.routine = "downloadAndDecryptMedia"
    /\ LET plain == pkcs7Unpad(dl.received, dl.pad) IN
       dl' = [dl EXCEPT !.pc = IF plain = NoFile THEN "rejected" ELSE "saved",
                        !.file = plain]
    /\ UNCHANGED <<h, card, run, calls, now, tok, out, rp, qq, sm, gw, fn>>

\* fetchMediaFromUrl: the Content-Length check.
FetchMediaCheckLength ==
    /\ dl.pc = "response"
    /\ dl.routine = "fetchMediaFromUrl"
    /\ dl' = [dl EXCEPT !.pc = IF dl.hasLength /\ dl.size > dl.maxBytes
                               THEN "rejected" ELSE "reading"]
    /\ UNCHANGED <<h, card, run, calls, now, tok, out, rp, qq, sm, gw, fn>>

\* fetchMediaFromUrl: response.arrayBuffer() takes the whole body, then the
\* actual size is checked; an accepted buffer is returned, no file written.
FetchMediaReadAll ==
    /\ dl.pc = "reading"
    /\ dl.routine = "fetchMediaFromUrl"
    /\ dl' = [dl EXCEPT !.received = dl.size,
                        !.pc = IF dl.size > dl.maxBytes
                               THEN "rejected" ELSE "saved"]
    /\ UNCHANGED <<h, card, run, calls, now, tok, out, rp, qq, sm, gw, fn>>

\* The caller takes the result; the next download may start.
DownloadReturns ==
    /\ dl.pc \in {"saved", "rejected"}
    /\ dl' = [dl EXCEPT !.pc = "idle"]
    /\ UNCHANGED <<h, card, run, calls, now, tok, out, rp, qq, sm, gw, fn>>

NextDownload ==
    \/ /\ dl.pc = "idle"
       /\ \E routine \in Routines, maxBytes \in 1..MaxLimit,
             size \in 0..MaxBody, hasLength \in BOOLEAN, pad \in 1..MaxPad :
             BeginDownload(routine, maxBytes, size, hasLength, pad)
    \/ DingTalkCheckLength
    \/ DingTalkRead
    \/ WecomAppCheckLength
    \/ WecomAppRead
    \/ WecomFetchBody
    \/ WecomDecryptAndSave
    \/ FetchMediaCheckLength
    \/ FetchMediaReadAll
    \/ DownloadReturns

-----------------------------------------------------------------------------
(* The WeCom-App access-token cache (getAccessToken).                      *)

MaxTokenCalls == 3
MaxTokenTicks == 3
TokenTickMs == 3450000

\* 2 hours less a 5-minute margin
ACCESS_TOKEN_TTL_MS == 7200 * 1000 - 5 * 60 * 1000

\* Resolved accounts: "" is a missing credential, "unset" a missing agentId.
Accounts ==
    [corpId : {"", "corpA"}, corpSecret : {"", "s3cret"},
     agentId : {"unset", "1001"}]

\* `${account.corpId}:${account.agentId ?? "default"}`
CacheKey(account) ==
    <<account.corpId,
      IF account.agentId = "unset" THEN "default" ELSE account.agentId>>

CacheKeys == {CacheKey(a) : a \in Accounts}

\* accessTokenCache.get(key) of a key never set
NoEntry == [token |-> 0, expiresAt |-> 0]

NoReturn ==
    [call |-> 0, kind |-> "none", key |-> <<"", "default">>, token |-> 0,
     expiresAt |-> 0, at |-> 0, fromCache |-> FALSE]

TokenIdle ==
    [cache |-> [k \in CacheKeys |-> NoEntry], pending |-> {},
     requests |-> 0, ncalls |-> 0, issued |-> 0, ret |-> NoReturn]

\* cached: the expiry of the entry is not looked at.
CacheHitIgnoringExpiry(entry) == entry.token # 0

\* cached && Date.now() < cached.expiresAt
CacheHit(entry) == entry.token # 0 /\ now < entry.expiresAt

\* The entry is stored with the platform's full lifetime, without the margin.
StoredEntryFullTtl(token) ==
    [token |-> token, expiresAt |-> now + 7200 * 1000]

\* { token: data.access_token, expiresAt: Date.now() + ACCESS_TOKEN_TTL_MS }
StoredEntry(token) ==
    [token |-> token, expiresAt |-> now + ACCESS_TOKEN_TTL_MS]

\* getAccessToken(account), up to its return or its first await, as call
\* number n: the outcome for the token cache.
getAccessToken(account, n) ==
    LET key == CacheKey(account)
        cached == tok.cache[key]
    IN IF account.corpId = "" \/ account.corpSecret = ""
       THEN [tok EXCEPT !.ncalls = n,
               !.ret = [NoReturn EXCEPT !.call = n, !.kind = "throw",
                                        !.key = key, !.at = now]]
       ELSE IF CacheHit(cached)
       THEN [tok EXCEPT !.ncalls = n,
               !.ret = [call |-> n, kind |-> "token", key |-> key,
                        token |-> cached.token,
                        expiresAt |-> cached.expiresAt, at |-> now,
                        fromCache |-> TRUE]]
       ELSE [tok EXCEPT !.ncalls = n,
               !.requests = @ + 1,
               !.pending = @ \cup {[call |-> n, key |-> key, at |-> now,
                                    seen |-> cached]}]

\* The gettoken response of pending call p: a token, an errcode, or a body
\* without access_token.
gettokenResponse(p, outcome) ==
    IF outcome = "ok"
    THEN [tok EXCEPT !.pending = @ \ {p},
            !.issued = @ + 1,
            !.cache[p.key] = StoredEntry(tok.issued + 1),
            !.ret = [call |-> p.call, kind |-> "token", key |-> p.key,
                     token |-> tok.issued + 1,
                     expiresAt |-> StoredEntry(tok.issued + 1).expiresAt,
                     at |-> now, fromCache |-> FALSE]]
    ELSE [tok EXCEPT !.pending = @ \ {p},
            !.ret = [NoReturn EXCEPT !.call = p.call, !.kind = "throw",
                                     !.key = p.key, !.at = now]]

\* Some caller calls getAccessToken(account).
GetAccessTokenCall(account) ==
    /\ tok.ncalls < MaxTokenCalls
    /\ tok' = getAccessToken(account, tok.ncalls + 1)
    /\ UNCHANGED <<h, card, run, calls, now, dl, out, rp, qq, sm, gw, fn>>

\* The gettoken endpoint answers a call made by GetAccessTokenCall.
GettokenResponds(p, outcome) ==
    /\ p \in tok.pending
    /\ tok' = gettokenResponse(p, outcome)
    /\ UNCHANGED <<h, card, run, calls, now, dl, out, rp, qq, sm, gw, fn>>

\* Time passes on the token's scale.
TokenTick ==
    /\ now < StartClock + MaxTokenTicks * TokenTickMs
    /\ now' = now + TokenTickMs
    /\ UNCHANGED <<h, card, run, calls, dl, tok, out, rp, qq, sm, gw, fn>>

GettokenOutcomes == {"ok", "errcode", "empty"}

NextToken ==
    \/ /\ tok.ncalls < MaxTokenCalls
       /\ \E account \in Accounts : GetAccessTokenCall(account)
    \/ \E p \in tok.pending, outcome \in GettokenOutcomes :
           GettokenResponds(p, outcome)
    \/ TokenTick

-----------------------------------------------------------------------------
(* Outbound senders: the WeCom-App active-send entry points and the Feishu *)
(* outbound adapter.                                                       *)

WecomAppEntries ==
    {"outbound.sendText", "outbound.sendMedia", "sendActiveMessage",
     "sendWecomAppMessage"}

FeishuEntries == {"feishuOutbound.sendText", "feishuOutbound.sendMedia"}

\* The requests an entry point makes, in order, when nothing fails.
Stages(entry, hasCaption) ==
    CASE entry = "outbound.sendMedia" -> <<"download", "upload", "send">>
      [] entry = "feishuOutbound.sendMedia" ->
            IF hasCaption THEN <<"caption", "media">> ELSE <<"media">>
      [] OTHER -> <<"send">>

\* The stages whose request carries an access token from getAccessToken.
NeedsToken(stage) == stage \in {"upload", "send"}

OutIdle ==
    [pc |-> "idle", entry |-> "none",
     account |-> [corpId |-> "", corpSecret |-> "", agentId |-> "unset"],
     stages |-> <<>>, requests |-> <<>>, result |-> "none",
     errcode |-> "none", tokenCall |-> 0]

\* Boolean(corpId && corpSecret): the agentId is not looked at.
canSendActiveWithoutAgent(account) ==
    account.corpId # "" /\ account.corpSecret # ""

\* Boolean(corpId && corpSecret && agentId)
canSendActive(account) ==
    account.corpId # "" /\ account.corpSecret # "" /\ account.agentId # "unset"

\* The call ends with an exception raised at the current stage.  The
\* download-and-send helpers, sendActiveMessage and the WeCom-App outbound
\* adapter catch it into a failure result; sendWecomAppMessage and the
\* Feishu adapter let it reach the caller.
Raised(o) ==
    [o EXCEPT !.pc = "done",
              !.result = IF o.entry \in {"outbound.sendText",
                                        "outbound.sendMedia",
                                        "sendActiveMessage"}
                         THEN "fail" ELSE "throw"]

\* An entry point is called.
OutboundCall(entry, account, configured, hasCaption) ==
    /\ out.pc = "idle"
    /\ LET o == [OutIdle EXCEPT !.entry = entry, !.account = account] IN
       out' = IF entry \in FeishuEntries
              THEN IF configured
                   THEN [OutIdle EXCEPT !.entry = entry, !.pc = "stage",
                                        !.stages = Stages(entry, hasCaption)]
                   ELSE Raised([OutIdle EXCEPT !.entry = entry])
              ELSE IF ~canSendActive(account)
                   THEN [o EXCEPT !.pc = "done", !.result = "fail"]
                   ELSE [o EXCEPT !.pc = "stage",
                                  !.stages = Stages(entry, hasCaption)]
    /\ UNCHANGED <<h, card, run, calls, now, dl, tok, rp, qq, sm, gw, fn>>

\* The next stage runs up to its first await: getAccessToken when the stage
\* needs a token, then the stage's own request.
StartStage ==
    /\ out.pc = "stage"
    /\ LET stage == Head(out.stages)
           n == tok.ncalls + 1
           t == getAccessToken(out.account, n)
       IN IF ~NeedsToken(stage)
          THEN /\ out' = [out EXCEPT !.pc = "await",
                                     !.requests = Append(@, stage)]
               /\ UNCHANGED tok
          ELSE /\ tok.ncalls < MaxTokenCalls
               /\ tok' = t
               /\ out' = IF t.ret.call = n /\ t.ret.kind = "throw"
                         THEN Raised(out)
                         ELSE IF t.ret.call = n
                         THEN [out EXCEPT !.pc = "await",
                                          !.requests = Append(@, stage)]
                         ELSE [out EXCEPT !.pc = "token", !.tokenCall = n,
                                          !.requests = Append(@, "gettoken")]
    /\ UNCHANGED <<h, card, run, calls, now, dl, rp, qq, sm, gw, fn>>

\* The gettoken response for the send arrives.
OutGettokenResponds(p, outcome) ==
    /\ out.pc = "token"
    /\ p \in tok.pending
    /\ p.call = out.tokenCall
    /\ tok' = gettokenResponse(p, outcome)
    /\ out' = IF outcome = "ok"
              THEN [out EXCEPT !.pc = "await",
                               !.requests = Append(@, Head(out.stages))]
              ELSE Raised(out)
    /\ UNCHANGED <<h, card, run, calls, now, dl, rp, qq, sm, gw, fn>>

StageOutcomes == {"ok", "errcode", "expired", "throw"}

\* The platform answers the stage's request: success, an error code, the
\* token-expired error code, or the transport fails.
StageResponds(outcome) ==
    /\ out.pc = "await"
    /\ LET stage == Head(out.stages) IN
       out' =
         IF outcome = "ok"
         THEN IF Tail(out.stages) = <<>>
              THEN [out EXCEPT !.pc = "done", !.result = "ok", !.stages = <<>>]
              ELSE [out EXCEPT !.pc = "stage", !.stages = Tail(@)]
         ELSE IF stage = "send" /\ outcome # "throw"
         THEN [out EXCEPT !.pc = "done", !.result = "fail",
                          !.errcode = outcome]
         ELSE IF stage = "media"
         THEN [out EXCEPT !.pc = "stage", !.stages = <<"fallback">>]
         ELSE [Raised(out) EXCEPT !.errcode = outcome]
    /\ UNCHANGED <<h, card, run, calls, now, dl, tok, rp, qq, sm, gw, fn>>

\* The caller has the result; the next call may start.
OutboundReturns ==
    /\ out.pc = "done"
    /\ out' = OutIdle
    /\ UNCHANGED <<h, card, run, calls, now, dl, tok, rp, qq, sm, gw, fn>>

NextSend ==
    \/ /\ out.pc = "idle"
       /\ \E entry \in WecomAppEntries \cup FeishuEntries,
             account \in Accounts, configured, hasCaption \in BOOLEAN :
             OutboundCall(entry, account, configured, hasCaption)
    \/ StartStage
    \/ \E p \in tok.pending, outcome \in GettokenOutcomes :
           OutGettokenResponds(p, outcome)
    \/ \E outcome \in StageOutcomes : StageResponds(outcome)
    \/ OutboundReturns
    \/ TokenTick

-----------------------------------------------------------------------------
(* The reply pipeline of one inbound message: the awaited steps of the     *)
(* channel handler after the policy gate, the deliver callback the Host    *)
(* dispatcher calls once per reply payload, and the platform sends deliver *)
(* makes.  Any awaited step may fail; where the failure ends up is decided *)
(* by the try blocks of each handler.                                      *)

MaxPayloads == 2

MaxReplyChunks == 2

\* The awaited steps of a handler, in program order.
Steps(chan) ==
    IF chan = "dingtalk" THEN <<"route", "dispatch">>
    ELSE <<"route", "media", "session", "dispatch">>

StepAfter(chan, step) ==
    LET i == CHOOSE k \in 1..Len(Steps(chan)) : Steps(chan)[k] = step
    IN Steps(chan)[i + 1]

\* Where an exception raised in a step goes:
\*   "return"    the handler's own catch logs it and the handler returns;
\*   "continue"  a catch around the step logs it and the handler goes on;
\*   "propagate" no catch encloses the step: the handler's promise rejects.
OnThrow(chan, step) ==
    CASE chan = "dingtalk"  -> "return"
      [] chan = "wecom"     -> "propagate"
      [] chan = "wecom-app" -> IF step = "media" THEN "continue" ELSE "propagate"
      [] chan = "qqbot"     -> IF step \in {"media", "session"} THEN "continue"
                               ELSE "propagate"

\* What a failed platform send does to the deliver call that made it:
\* sendMessageDingtalk / sendMediaDingtalk throw out of the for loop, the
\* QQ senders return {error} which the loop logs.
SendFailureThrows(chan) == chan = "dingtalk"

\* Channels whose deliver sends to the platform itself; the WeCom channels
\* hand the converted text to hooks.onChunk.
SendingChannels == {"dingtalk", "qqbot"}

\* isOfficialQQFileSendLimit on the error message of a failed send.
isOfficialQQFileSendLimit(errorMessage) == errorMessage = "file_type=4"

\* The fallback text is always the bare link.
buildMediaFallbackTextPlain(errorMessage) == "clip"

\* buildMediaFallbackText: the explanation of the official limit followed
\* by the link ("limit"), or the paperclip and the link ("clip").
buildMediaFallbackText(errorMessage) ==
    IF isOfficialQQFileSendLimit(errorMessage) THEN "limit" ELSE "clip"

\* One entry of the wire log: a send started, succeeded or failed (note is
\* the error message), or a fallback text was sent (note is its form).
WireEvent(ev, c, note) ==
    [ev |-> ev, p |-> Len(rp.sizes), c |-> c, note |-> note]

SendErrors == {"error", "file_type=4"}

ReplyIdle ==
    [pc      |-> "idle",
     chan    |-> "none",
     sizes   |-> <<>>,
     kinds   |-> <<>>,
     queue   |-> <<>>,
     sending |-> 0,
     fallback |-> "none",
     wire    |-> <<>>,
     logged  |-> 0,
     outcome |-> "none"]

\* The transport hands a message that passed the policy gate to the handler.
HandleInbound(chan) ==
    /\ rp.pc = "idle"
    /\ rp' = [ReplyIdle EXCEPT !.pc = "route", !.chan = chan]
    /\ UNCHANGED <<h, card, run, calls, now, dl, tok, out, qq, sm, gw, fn>>

\* resolveAgentRoute, the media step or recordInboundSession returns or throws.
StepSettles(ok) ==
    /\ rp.pc \in {"route", "media", "session"}
    /\ rp' =
        IF ok THEN [rp EXCEPT !.pc = StepAfter(rp.chan, rp.pc)]
        ELSE CASE OnThrow(rp.chan, rp.pc) = "continue" ->
                    [rp EXCEPT !.pc = StepAfter(rp.chan, rp.pc),
                               !.logged = @ + 1]
               [] OnThrow(rp.chan, rp.pc) = "return" ->
                    [rp EXCEPT !.pc = "done", !.logged = @ + 1,
                               !.outcome = "returned"]
               [] OnThrow(rp.chan, rp.pc) = "propagate" ->
                    [rp EXCEPT !.pc = "done", !.outcome = "threw"]
    /\ UNCHANGED <<h, card, run, calls, now, dl, tok, out, qq, sm, gw, fn>>

\* A reply payload holds text, media URLs, or both.
PayloadKinds == {"text", "media", "both"}

\* The Host dispatcher calls deliver with its next reply payload; deliver
\* splits its text into n chunks, or sends its n media URLs.  DingTalk's
\* deliver returns after the media loop, so of a payload with both it
\* queues the n media URLs only.
HostDelivers(kind, n) ==
    /\ rp.pc = "dispatch"
    /\ Len(rp.sizes) < MaxPayloads
    /\ rp.chan \in SendingChannels \/ (n = 1 /\ kind = "text")
    /\ kind = "both" => rp.chan = "dingtalk"
    /\ rp' = [rp EXCEPT
               !.pc = "deliver",
               !.sizes = Append(@, n),
               !.kinds = Append(@, kind),
               !.queue = [c \in 1..n |-> c]]
    /\ UNCHANGED <<h, card, run, calls, now, dl, tok, out, qq, sm, gw, fn>>

\* deliver starts the send of the next chunk without waiting for the one in
\* flight.
StartSendWithoutAwait ==
    /\ rp.pc = "deliver"
    /\ rp.queue # <<>>
    /\ rp' = [rp EXCEPT
               !.sending = Head(rp.queue),
               !.queue = Tail(@),
               !.wire = Append(@, WireEvent("start", Head(rp.queue), "none"))]
    /\ UNCHANGED <<h, card, run, calls, now, dl, tok, out, qq, sm, gw, fn>>

\* for (const chunk of chunks) { await send(chunk) }: the next iteration.
StartSend ==
    /\ rp.pc = "deliver"
    /\ rp.sending = 0
    /\ rp.queue # <<>>
    /\ rp' = [rp EXCEPT
               !.sending = Head(rp.queue),
               !.queue = Tail(@),
               !.wire = Append(@, WireEvent("start", Head(rp.queue), "none"))]
    /\ UNCHANGED <<h, card, run, calls, now, dl, tok, out, qq, sm, gw, fn>>

\* The awaited send settles.  A failure either throws out of deliver into
\* the Host dispatcher, whose onError callback logs it, or comes back as
\* {error}, which the loop logs; for a media URL the QQ loop then sends a
\* fallback text before its next iteration.
SendResponds(outcome) ==
    /\ rp.pc = "deliver"
    /\ rp.sending # 0
    /\ rp.fallback = "none"
    /\ outcome = "ok" \/ rp.chan \in SendingChannels
    /\ outcome = "file_type=4" =>
          (rp.chan = "qqbot" /\ rp.kinds[Len(rp.kinds)] = "media")
    /\ LET ok    == outcome = "ok"
           ended == Append(rp.wire,
                           WireEvent(IF ok THEN "ok" ELSE "fail", rp.sending,
                                     IF ok THEN "none" ELSE outcome))
       IN rp' =
           IF ok THEN [rp EXCEPT !.sending = 0, !.wire = ended]
           ELSE IF SendFailureThrows(rp.chan)
           THEN [rp EXCEPT !.pc = "dispatch", !.sending = 0, !.queue = <<>>,
                           !.wire = ended, !.logged = @ + 1]
           ELSE IF rp.kinds[Len(rp.kinds)] = "media"
           THEN [rp EXCEPT !.wire = ended, !.logged = @ + 1,
                           !.fallback = buildMediaFallbackText(outcome)]
           ELSE [rp EXCEPT !.sending = 0, !.wire = ended, !.logged = @ + 1]
    /\ UNCHANGED <<h, card, run, calls, now, dl, tok, out, qq, sm, gw, fn>>

\* The awaited sendText of the fallback text settles; a failure is logged.
FallbackTextSent(ok) ==
    /\ rp.pc = "deliver"
    /\ rp.fallback # "none"
    /\ rp' = [rp EXCEPT
               !.sending = 0,
               !.fallback = "none",
               !.logged = IF ok THEN @ ELSE @ + 1,
               !.wire = Append(@, WireEvent("fallback", rp.sending,
                                            rp.fallback))]
    /\ UNCHANGED <<h, card, run, calls, now, dl, tok, out, qq, sm, gw, fn>>

\* The loop is over and deliver resolves.
DeliverReturns ==
    /\ rp.pc = "deliver"
    /\ rp.sending = 0
    /\ rp.queue = <<>>
    /\ rp' = [rp EXCEPT !.pc = "dispatch"]
    /\ UNCHANGED <<h, card, run, calls, now, dl, tok, out, qq, sm, gw, fn>>

\* The awaited dispatch call of the Host resolves or rejects.
DispatchSettles(ok) ==
    /\ rp.pc = "dispatch"
    /\ rp' =
        IF ok THEN [rp EXCEPT !.pc = "done", !.outcome = "returned"]
        ELSE IF OnThrow(rp.chan, "dispatch") = "return"
        THEN [rp EXCEPT !.pc = "done", !.logged = @ + 1,
                        !.outcome = "returned"]
        ELSE [rp EXCEPT !.pc = "done", !.outcome = "threw"]
    /\ UNCHANGED <<h, card, run, calls, now, dl, tok, out, qq, sm, gw, fn>>

\* The handler's promise has settled; the transport hands over the next
\* message.
HandlerSettled ==
    /\ rp.pc = "done"
    /\ rp' = ReplyIdle
    /\ UNCHANGED <<h, card, run, calls, now, dl, tok, out, qq, sm, gw, fn>>

NextReply ==
    \/ \E chan \in Channels : HandleInbound(chan)
    \/ \E ok \in BOOLEAN : StepSettles(ok)
    \/ \E kind \in PayloadKinds, n \in 1..MaxReplyChunks :
           HostDelivers(kind, n)
    \/ StartSend
    \/ \E outcome \in {"ok"} \cup SendErrors : SendResponds(outcome)
    \/ \E ok \in BOOLEAN : FallbackTextSent(ok)
    \/ DeliverReturns
    \/ \E ok \in BOOLEAN : DispatchSettles(ok)
    \/ HandlerSettled

-----------------------------------------------------------------------------
(* QQ: handleQQBotDispatch / dispatchToAgent from the parsed event to the  *)
(* dispatch, with the attachments of the message resolved one by one.      *)

MaxAttachments == 2

\* content of the event: empty, whitespace only, or text.
QQContents == {"", " ", "hi"}

\* String.prototype.trim on the contents above.
Trim(content) == IF content = " " THEN "" ELSE content

AttachmentKinds == {"image", "voice", "file"}

QQAttachmentLists ==
    UNION {[1..n -> AttachmentKinds] : n \in 0..MaxAttachments}

\* qqCfg.asr.enabled and whether resolveQQBotASRCredentials yields
\* credentials.
AsrConfigs == [enabled : BOOLEAN, credentials : BOOLEAN]

\* How the transcription of one voice attachment ends: a transcript, a
\* blank transcript, an ASRError or fetch error, a URL that is not http(s).
AsrOutcomes == {"transcript", "blank", "error", "notHttp"}

QQIdle ==
    [pc            |-> "idle",
     type          |-> "none",
     content       |-> "",
     atts          |-> <<>>,
     asr           |-> [enabled |-> FALSE, credentials |-> FALSE],
     idx           |-> 0,
     hasVoice      |-> FALSE,
     hasTranscript |-> FALSE,
     admitted      |-> FALSE,
     effects       |-> <<>>]

\* parseC2CMessage / parseGroupMessage: null for an event with neither text
\* nor attachments.
ParsesToMessage(content, atts) == ~(Trim(content) = "" /\ atts = <<>>)

\* resolveChatTarget(inbound).to
ChatTarget(type) == IF type = "group" THEN "group" ELSE "user"

\* handleQQBotDispatch up to the call of resolveInboundAttachmentsForAgent:
\* parse, config and policy gate, the empty-message return, typing, route.
QQReceive(type, content, atts, asr, allowed, coreReady) ==
    /\ qq.pc = "idle"
    /\ LET parsed == ParsesToMessage(content, atts)
           empty  == Trim(content) = "" /\ Len(atts) = 0
           goesOn == parsed /\ allowed /\ ~empty /\ coreReady
       IN qq' = [QQIdle EXCEPT
                   !.pc = IF goesOn THEN "attachments" ELSE "done",
                   !.type = type,
                   !.content = IF parsed THEN Trim(content) ELSE content,
                   !.atts = atts,
                   !.asr = asr,
                   !.idx = 1,
                   !.admitted = allowed /\ coreReady,
                   !.effects = IF goesOn THEN <<"route">> ELSE <<>>]
    /\ UNCHANGED <<h, card, run, calls, now, dl, tok, out, rp, sm, gw, fn>>

\* One iteration of the loop of resolveInboundAttachmentsForAgent.
ResolveAttachment(outcome) ==
    /\ qq.pc = "attachments"
    /\ qq.idx <= Len(qq.atts)
    /\ LET voice == qq.atts[qq.idx] = "voice"
           tries == voice /\ qq.asr.enabled /\ qq.asr.credentials
       IN /\ tries \/ outcome = "notHttp"
          /\ qq' = [qq EXCEPT
                     !.idx = @ + 1,
                     !.hasVoice = @ \/ voice,
                     !.hasTranscript = @ \/ (tries /\ outcome = "transcript")]
    /\ UNCHANGED <<h, card, run, calls, now, dl, tok, out, rp, sm, gw, fn>>

\* After the loop the message is dispatched whatever the transcription
\* gave.
AttachmentsResolvedAlwaysDispatch ==
    /\ qq.pc = "attachments"
    /\ qq.idx > Len(qq.atts)
    /\ qq' = [qq EXCEPT !.pc = "dispatch"]
    /\ UNCHANGED <<h, card, run, calls, now, dl, tok, out, rp, sm, gw, fn>>

\* After the loop: the voice fallback branch or the dispatch.
AttachmentsResolved ==
    /\ qq.pc = "attachments"
    /\ qq.idx > Len(qq.atts)
    /\ qq' = [qq EXCEPT
               !.pc = IF qq.asr.enabled /\ qq.hasVoice /\ ~qq.hasTranscript
                      THEN "fallback" ELSE "dispatch"]
    /\ UNCHANGED <<h, card, run, calls, now, dl, tok, out, rp, sm, gw, fn>>

\* qqbotOutbound.sendText of buildVoiceASRFallbackReply to target.to, then
\* return; a failed send is logged.
VoiceFallbackSend(ok) ==
    /\ qq.pc = "fallback"
    /\ qq' = [qq EXCEPT
               !.pc = "done",
               !.effects = @ \o <<"fallback:" \o ChatTarget(qq.type)>>
                             \o (IF ok THEN <<>> ELSE <<"logged">>)]
    /\ UNCHANGED <<h, card, run, calls, now, dl, tok, out, rp, sm, gw, fn>>

\* The message is handed to the Host's reply dispatch.
QQDispatch ==
    /\ qq.pc = "dispatch"
    /\ qq' = [qq EXCEPT !.pc = "done", !.effects = Append(@, "dispatch")]
    /\ UNCHANGED <<h, card, run, calls, now, dl, tok, out, rp, sm, gw, fn>>

QQReturns ==
    /\ qq.pc = "done"
    /\ qq' = QQIdle
    /\ UNCHANGED <<h, card, run, calls, now, dl, tok, out, rp, sm, gw, fn>>

NextQQ ==
    \/ /\ qq.pc = "idle"
       /\ \E type \in {"direct", "group"}, content \in QQContents,
             atts \in QQAttachmentLists, asr \in AsrConfigs,
             allowed, coreReady \in BOOLEAN :
             QQReceive(type, content, atts, asr, allowed, coreReady)
    \/ \E outcome \in AsrOutcomes : ResolveAttachment(outcome)
    \/ AttachmentsResolved
    \/ \E ok \in BOOLEAN : VoiceFallbackSend(ok)
    \/ QQDispatch
    \/ QQReturns

-----------------------------------------------------------------------------
(* WeCom-App outbound.sendMedia: media type detection and the routing to   *)
(* the image, voice and file senders.  sm.sent lists, in order, the sends  *)
(* the call has awaited: "caption", "image", "voice:<ext>", "file".        *)

\* File extensions of mediaUrl.
MediaExts == {"png", "amr", "speex", "wav", "mp3", "pdf"}

\* The mimeType parameter; "none" when the caller gives none.
MimeTypes == {"none", "image/png", "audio/wav", "audio/mpeg"}

\* detectMediaType: the MIME type first, then the extension.
detectMediaType(ext, mime) ==
    CASE mime = "image/png"  -> "image"
      [] mime = "audio/wav"  -> "file"
      [] mime = "audio/mpeg" -> "voice"
      [] OTHER ->
            IF ext = "png" THEN "image"
            ELSE IF ext \in {"amr", "speex", "mp3"} THEN "voice"
            ELSE "file"

\* The caption is never sent ahead of the file.
CaptionFirstNever(text) == FALSE

\* params.text?.trim(): a caption goes out before the file.
CaptionFirst(text) == Trim(text) # ""

SendMediaIdle ==
    [pc        |-> "idle",
     ext       |-> "none",
     mime      |-> "none",
     remote    |-> FALSE,
     text      |-> "",
     enabled   |-> FALSE,
     ffmpeg    |-> FALSE,
     works     |-> FALSE,
     mediaType |-> "none",
     voiceExt  |-> "none",
     sent      |-> <<>>,
     result    |-> "none"]

\* outbound.sendMedia is called for an account that can send: the media
\* type is detected and the first branch taken.  ffmpeg and works are facts
\* of the host system: ffmpeg is installed, the transcoding succeeds.
SendMediaCall(ext, mime, remote, text, enabled, ffmpeg, works) ==
    /\ sm.pc = "idle"
    /\ LET mediaType == detectMediaType(ext, mime)
           likelyUnsupported == ext \in {"wav", "mp3"}
       IN sm' = [SendMediaIdle EXCEPT
                   !.ext = ext, !.mime = mime, !.remote = remote,
                   !.text = text, !.enabled = enabled, !.ffmpeg = ffmpeg,
                   !.works = works, !.mediaType = mediaType,
                   !.voiceExt = ext,
                   !.pc = CASE mediaType = "image" -> "sendImage"
                            [] mediaType = "voice" ->
                                 IF likelyUnsupported /\ enabled
                                 THEN "hasFfmpeg"
                                 ELSE IF likelyUnsupported THEN "sendFile"
                                 ELSE "sendVoice"
                            [] OTHER ->
                                 IF CaptionFirst(text) THEN "caption"
                                 ELSE "sendFile"]
    /\ UNCHANGED <<h, card, run, calls, now, dl, tok, out, rp, qq, gw, fn>>

\* await hasFfmpeg(): transcode a local file, else fall back to file.
FfmpegChecked ==
    /\ sm.pc = "hasFfmpeg"
    /\ sm' = [sm EXCEPT
               !.pc = IF sm.ffmpeg /\ ~sm.remote THEN "transcode"
                      ELSE "sendFile"]
    /\ UNCHANGED <<h, card, run, calls, now, dl, tok, out, rp, qq, gw, fn>>

\* await transcodeToAmr(...): the .amr is sent as voice; a failure is
\* caught and the original is sent as file.
TranscodeSettles ==
    /\ sm.pc = "transcode"
    /\ sm' = IF sm.works
             THEN [sm EXCEPT !.pc = "sendVoice", !.voiceExt = "amr"]
             ELSE [sm EXCEPT !.pc = "sendFile"]
    /\ UNCHANGED <<h, card, run, calls, now, dl, tok, out, rp, qq, gw, fn>>

\* await sendWecomAppMessage(account, target, params.text) in its own try:
\* whatever the outcome the file is sent next.
CaptionSettles(ok) ==
    /\ sm.pc = "caption"
    /\ sm' = [sm EXCEPT !.pc = "sendFile", !.sent = Append(@, "caption")]
    /\ UNCHANGED <<h, card, run, calls, now, dl, tok, out, rp, qq, gw, fn>>

\* downloadAndSendImage / downloadAndSendVoice / downloadAndSendFile
\* resolves with {ok}; sendMedia returns it.
MediaSendSettles(ok) ==
    /\ sm.pc \in {"sendImage", "sendVoice", "sendFile"}
    /\ sm' = [sm EXCEPT
               !.pc = "done",
               !.result = IF ok THEN "ok" ELSE "fail",
               !.sent = Append(@, CASE sm.pc = "sendImage" -> "image"
                                    [] sm.pc = "sendVoice" ->
                                         "voice:" \o sm.voiceExt
                                    [] OTHER -> "file")]
    /\ UNCHANGED <<h, card, run, calls, now, dl, tok, out, rp, qq, gw, fn>>

SendMediaReturns ==
    /\ sm.pc = "done"
    /\ sm' = SendMediaIdle
    /\ UNCHANGED <<h, card, run, calls, now, dl, tok, out, rp, qq, gw, fn>>

NextSendMedia ==
    \/ /\ sm.pc = "idle"
       /\ \E ext \in MediaExts, mime \in MimeTypes, text \in QQContents,
             remote, enabled, ffmpeg, works \in BOOLEAN :
             SendMediaCall(ext, mime, remote, text, enabled, ffmpeg, works)
    \/ FfmpegChecked
    \/ TranscodeSettles
    \/ \E ok \in BOOLEAN : CaptionSettles(ok)
    \/ \E ok \in BOOLEAN : MediaSendSettles(ok)
    \/ SendMediaReturns

-----------------------------------------------------------------------------
(* WeCom-App accounts: resolveWecomAppAccount (config.ts) and the gateway  *)
(* startAccount / stopAccount with the table of webhook targets.           *)

MaxRegistrations == 3

\* Account ids the Host may start, stop or resolve.
AccountIds == {"alice", "ghost"}

\* Account ids that may appear under channels.wecom-app.accounts.
ListedIds == {"alice"}

\* The keys of an account block or of the channel block that matter here:
\* enabled ("unset" when omitted); ingress, the token and encodingAESKey
\* ("none" when one is missing, "bad" when the key does not decode to 32
\* bytes, "good" otherwise); send, whether corpId, corpSecret and agentId
\* are given.
Blocks ==
    [enabled : {"unset", "true", "false"},
     ingress : {"none", "bad", "good"},
     send    : BOOLEAN]

\* channels.wecom-app: the channel-level block and the accounts map.
PluginConfigs ==
    [base : Blocks,
     accounts : UNION {[ids -> Blocks] : ids \in SUBSET ListedIds}]

\* process.env: WECOM_APP_TOKEN and WECOM_APP_ENCODING_AES_KEY (ingress),
\* WECOM_APP_CORP_ID, WECOM_APP_CORP_SECRET and WECOM_APP_AGENT_ID (send).
Envs == [ingress : {"none", "bad", "good"}, send : BOOLEAN]

NoEnv == [ingress |-> "none", send |-> FALSE]

DEFAULT_ACCOUNT_ID == "default"

\* normalizeAccountId: String(raw ?? "").trim() || DEFAULT_ACCOUNT_ID
normalizeAccountId(raw) == IF raw = "" THEN DEFAULT_ACCOUNT_ID ELSE raw

\* mergeWecomAppAccountConfig: { ...baseConfig, ...account }, the account
\* block being {} for an id the accounts map does not hold.
mergeWecomAppAccountConfig(cfg, accountId) ==
    IF accountId \in DOMAIN cfg.accounts
    THEN LET account == cfg.accounts[accountId] IN
         [enabled |-> IF account.enabled # "unset" THEN account.enabled
                      ELSE cfg.base.enabled,
          ingress |-> IF account.ingress # "none" THEN account.ingress
                      ELSE cfg.base.ingress,
          send    |-> account.send \/ cfg.base.send]
    ELSE cfg.base

\* The environment is read for every account id.
EnvAppliesAlways(accountId) == TRUE

\* isDefaultAccount: the environment is a fallback of the default account.
EnvApplies(accountId) == accountId = DEFAULT_ACCOUNT_ID

\* resolveWecomAppAccount: configured = Boolean(token && encodingAESKey),
\* canSendActive = Boolean(corpId && corpSecret && agentId).
resolveWecomAppAccount(cfg, env, raw) ==
    LET accountId == normalizeAccountId(raw)
        baseEnabled == cfg.base.enabled # "false"
        merged == mergeWecomAppAccountConfig(cfg, accountId)
        ingress == IF merged.ingress # "none" THEN merged.ingress
                   ELSE IF EnvApplies(accountId) THEN env.ingress
                   ELSE "none"
        send == merged.send \/ (EnvApplies(accountId) /\ env.send)
    IN [accountId     |-> accountId,
        listed        |-> accountId \in DOMAIN cfg.accounts,
        enabled       |-> baseEnabled /\ merged.enabled # "false",
        ingress       |-> ingress,
        configured    |-> ingress # "none",
        canSendActive |-> send]

NoAccount ==
    [accountId |-> "none", listed |-> FALSE, enabled |-> FALSE,
     ingress |-> "none", configured |-> FALSE, canSendActive |-> FALSE]

GatewayIdle ==
    [targets  |-> {},
     hooks    |-> [a \in AccountIds |-> 0],
     nextId   |-> 1,
     running  |-> [a \in AccountIds |-> FALSE],
     stopped  |-> [a \in AccountIds |-> FALSE],
     resolved |-> NoAccount]

\* registerWecomAppWebhookTarget adds a target for the account and returns
\* the function that removes that very target.
Register(targets, id, accountId) ==
    targets \cup {[id |-> id, accountId |-> accountId]}

Unregister(targets, id) == {t \in targets : t.id # id}

\* startAccount that stores the new hook without calling the earlier one.
startAccountKeepsExisting(accountId, cfg) ==
    /\ gw.nextId <= MaxRegistrations
    /\ LET account == resolveWecomAppAccount(cfg, NoEnv, accountId) IN
       gw' = IF ~account.configured
             THEN [gw EXCEPT !.running[accountId] = FALSE,
                             !.stopped[accountId] = FALSE,
                             !.resolved = account]
             ELSE [gw EXCEPT
                     !.targets = Register(@, gw.nextId, accountId),
                     !.hooks[accountId] = gw.nextId,
                     !.nextId = @ + 1,
                     !.running[accountId] = TRUE,
                     !.stopped[accountId] = FALSE,
                     !.resolved = account]
    /\ UNCHANGED <<h, card, run, calls, now, dl, tok, out, rp, qq, sm, fn>>

\* gateway.startAccount: nothing is registered for an account that is not
\* configured; otherwise the new target is registered, the hook kept from an
\* earlier start is called, and the new hook is stored.
startAccount(accountId, cfg) ==
    /\ gw.nextId <= MaxRegistrations
    /\ LET account == resolveWecomAppAccount(cfg, NoEnv, accountId) IN
       gw' = IF ~account.configured
             THEN [gw EXCEPT !.running[accountId] = FALSE,
                             !.stopped[accountId] = FALSE,
                             !.resolved = account]
             ELSE [gw EXCEPT
                     !.targets = Unregister(Register(@, gw.nextId, accountId),
                                            gw.hooks[accountId]),
                     !.hooks[accountId] = gw.nextId,
                     !.nextId = @ + 1,
                     !.running[accountId] = TRUE,
                     !.stopped[accountId] = FALSE,
                     !.resolved = account]
    /\ UNCHANGED <<h, card, run, calls, now, dl, tok, out, rp, qq, sm, fn>>

\* stopAccount that forgets the hook without calling it.
stopAccountKeepsTarget(accountId) ==
    /\ gw' = [gw EXCEPT
               !.hooks[accountId] = 0,
               !.running[accountId] = FALSE,
               !.stopped[accountId] = TRUE]
    /\ UNCHANGED <<h, card, run, calls, now, dl, tok, out, rp, qq, sm, fn>>

\* gateway.stopAccount: call the stored hook and delete it.
stopAccount(accountId) ==
    /\ gw' = [gw EXCEPT
               !.targets = Unregister(@, gw.hooks[accountId]),
               !.hooks[accountId] = 0,
               !.running[accountId] = FALSE,
               !.stopped[accountId] = TRUE]
    /\ UNCHANGED <<h, card, run, calls, now, dl, tok, out, rp, qq, sm, fn>>

NextGateway ==
    \/ \E accountId \in AccountIds, cfg \in PluginConfigs :
           startAccount(accountId, cfg)
    \/ \E accountId \in AccountIds : stopAccount(accountId)

-----------------------------------------------------------------------------
(* Pure routines.  Each behaviour is one call: fn holds the routine, its   *)
(* input and its result.                                                   *)

NoCall == [op |-> "none"]

\* Account ids as callers pass them; "" stands for a missing one.
RawAccountIds == {"", "default", "alice", "ghost"}

\* resolveWecomAppAccount({cfg, accountId}) under a process environment;
\* unset is what the same call yields when the environment sets nothing.
ResolveAccount(cfg, env, raw) ==
    /\ fn = NoCall
    /\ fn' = [op       |-> "resolveWecomAppAccount",
              resolved |-> resolveWecomAppAccount(cfg, env, raw),
              unset    |-> resolveWecomAppAccount(cfg, NoEnv, raw),
              env      |-> env]
    /\ UNCHANGED <<h, card, run, calls, now, dl, tok, out, rp, qq, sm, gw>>

\* Targets are strings cut into pieces: the three prefixes, a character of
\* an id, "@" and "/".  Each prefix ends in ':' and no other piece holds one.
MaxTargetLen == 4

TargetPieces == {"wecom-app:", "user:", "group:", "x", "@", "/"}

Targets == UNION {[1..n -> TargetPieces] : n \in 0..MaxTargetLen}

\* raw.lastIndexOf("@"), counted in pieces from 1; 0 when there is none.
lastIndexOf(raw, piece) ==
    IF \E i \in 1..Len(raw) : raw[i] = piece
    THEN CHOOSE i \in 1..Len(raw) :
             raw[i] = piece /\ \A j \in (i + 1)..Len(raw) : raw[j] # piece
    ELSE 0

\* !/[:/]/.test(potentialAccountId)
ValidAccountId(potentialAccountId) ==
    \A i \in 1..Len(potentialAccountId) :
        potentialAccountId[i] \in {"x", "@"}

NullTarget == [channel |-> "null", accountId |-> <<>>, to |-> <<>>]

\* The source holds the plug-in twice; both define directory.resolveTarget.
PluginCopies == {"first", "second"}

\* directory.resolveTarget; accountId <<>> stands for undefined.  The first
\* copy returns the id with its type prefix and puts "user:" before a bare
\* id; the second strips the type prefix.
resolveTarget(copy, target) ==
    IF target = <<>> THEN NullTarget
    ELSE LET raw == IF Head(target) = "wecom-app:" THEN Tail(target)
                    ELSE target
             atIdx == lastIndexOf(raw, "@")
             split == /\ atIdx > 1
                      /\ atIdx < Len(raw)
                      /\ ValidAccountId(SubSeq(raw, atIdx + 1, Len(raw)))
             to == IF split THEN SubSeq(raw, 1, atIdx - 1) ELSE raw
             accountId == IF split THEN SubSeq(raw, atIdx + 1, Len(raw))
                          ELSE <<>>
         IN [channel   |-> "wecom-app",
             accountId |-> accountId,
             to        |-> IF to # <<>> /\ Head(to) \in {"group:", "user:"}
                           THEN IF copy = "first" THEN to ELSE Tail(to)
                           ELSE IF copy = "first" THEN <<"user:">> \o to
                           ELSE to]

ResolveTarget(copy, target) ==
    /\ fn = NoCall
    /\ fn' = [op |-> "resolveTarget", copy |-> copy, target |-> target,
              result |-> resolveTarget(copy, target)]
    /\ UNCHANGED <<h, card, run, calls, now, dl, tok, out, rp, qq, sm, gw>>

\* Reply texts, in characters.
MaxTextLen == 3

ReplyTexts == UNION {[1..n -> {"a", "b"}] : n \in 0..MaxTextLen}

\* The places where a plug-in splits reply text itself or asks the Host to.
ChunkSites == {"feishu.chunker", "dingtalk.deliver", "dingtalk.fallback"}

\* The Host's chunkMarkdownText / chunkTextWithMode: pieces of at most
\* limit characters that add up to the text.
HostChunk(text, limit) == SliceChunks(text, limit)

\* feishuOutbound.chunker: the Host's chunker when the runtime has one, the
\* whole text as one chunk otherwise.
chunker(text, limit, hostReady) ==
    IF hostReady THEN HostChunk(text, limit) ELSE <<text>>

\* The chunks of DingTalk's normal-mode deliver.
deliverChunks(text, limit, hostReady) ==
    IF hostReady /\ limit > 0 THEN HostChunk(text, limit) ELSE <<text>>

\* One site splits a text under a textChunkLimit.
SplitText(site, text, limit, hostReady) ==
    /\ fn = NoCall
    /\ fn' = [op |-> "chunk", site |-> site, text |-> text, limit |-> limit,
              hostReady |-> hostReady,
              chunks |-> CASE site = "feishu.chunker" ->
                                  chunker(text, limit, hostReady)
                           [] site = "dingtalk.deliver" ->
                                  deliverChunks(text, limit, hostReady)
                           [] OTHER -> SliceChunks(text, limit)]
    /\ UNCHANGED <<h, card, run, calls, now, dl, tok, out, rp, qq, sm, gw>>

\* account.config.apiBaseUrl as the tests of the API pass it: missing (<<>>),
\* "https://proxy.wecom.local", or the same with trailing slashes.
ApiBaseUrls ==
    {<<>>, <<"https://proxy.wecom.local">>,
     <<"https://proxy.wecom.local", "/", "/">>}

\* getAccessToken's request URL: a literal that names the official host.
gettokenUrl(apiBaseUrl) == <<"https://qyapi.weixin.qq.com", "/cgi-bin/gettoken">>

\* sendWecomAppMessage's request URL: a literal as well.
messageSendUrl(apiBaseUrl) ==
    <<"https://qyapi.weixin.qq.com", "/cgi-bin/message/send">>

\* getAccessToken or sendWecomAppMessage builds the URL it fetches.
BuildUrl(routine, apiBaseUrl) ==
    /\ fn = NoCall
    /\ fn' = [op |-> "url", routine |-> routine, apiBaseUrl |-> apiBaseUrl,
              url |-> IF routine = "getAccessToken"
                      THEN gettokenUrl(apiBaseUrl)
                      ELSE messageSendUrl(apiBaseUrl)]
    /\ UNCHANGED <<h, card, run, calls, now, dl, tok, out, rp, qq, sm, gw>>

\* Times of the inbound media directory, in ticks; a day is DayMs ticks.
MaxNow == 5

DayMs == 2

\* inboundMedia.keepDays as resolveInboundMediaKeepDays returns it.
KeepDays == {0, 1}

\* pruneInboundMediaDir for one file of one date directory: the directory
\* is skipped when its mtime is not before the cut-off, and a file in it is
\* unlinked when its own mtime is before the cut-off.
pruneDeletes(keepDays, mtime, dirTime, nowMs) ==
    LET cutoff == nowMs - keepDays * DayMs IN
    /\ ~(dirTime >= cutoff)
    /\ mtime < cutoff

\* The clean-up after a dispatch, at nowMs, meets a file written at mtime
\* in a date directory last changed at dirTime.
Prune(keepDays, mtime, dirTime, nowMs) ==
    /\ fn = NoCall
    /\ mtime <= dirTime /\ dirTime <= nowMs
    /\ fn' = [op |-> "prune", keepDays |-> keepDays, mtime |-> mtime,
              dirTime |-> dirTime, nowMs |-> nowMs,
              deleted |-> pruneDeletes(keepDays, mtime, dirTime, nowMs)]
    /\ UNCHANGED <<h, card, run, calls, now, dl, tok, out, rp, qq, sm, gw>>

NextFn ==
    \/ \E cfg \in PluginConfigs, env \in Envs, raw \in RawAccountIds :
           ResolveAccount(cfg, env, raw)
    \/ \E copy \in PluginCopies, target \in Targets :
           ResolveTarget(copy, target)
    \/ \E site \in ChunkSites, text \in ReplyTexts, limit \in ChunkLimits,
          hostReady \in BOOLEAN :
           SplitText(site, text, limit, hostReady)
    \/ \E routine \in {"getAccessToken", "sendWecomAppMessage"},
          apiBaseUrl \in ApiBaseUrls :
           BuildUrl(routine, apiBaseUrl)
    \/ \E keepDays \in KeepDays, mtime, dirTime, nowMs \in 0..MaxNow :
           Prune(keepDays, mtime, dirTime, nowMs)

-----------------------------------------------------------------------------
Init ==
    /\ h = HandlerIdle
    /\ card = NewCard
    /\ run = NewRun
    /\ calls = {}
    /\ now = StartClock
    /\ dl = DownloadIdle
    /\ tok = TokenIdle
    /\ out = OutIdle
    /\ rp = ReplyIdle
    /\ qq = QQIdle
    /\ sm = SendMediaIdle
    /\ gw = GatewayIdle
    /\ fn = NoCall

SpecInbound == Init /\ [][NextInbound]_vars

SpecCard == Init /\ [][NextCard]_vars

SpecCardOverlap == Init /\ [][NextCardOverlap]_vars

SpecDownload == Init /\ [][NextDownload]_vars

SpecToken == Init /\ [][NextToken]_vars

SpecSend == Init /\ [][NextSend]_vars

SpecReply == Init /\ [][NextReply]_vars

SpecQQ == Init /\ [][NextQQ]_vars

SpecSendMedia == Init /\ [][NextSendMedia]_vars

SpecGateway == Init /\ [][NextGateway]_vars

SpecFn == Init /\ [][NextFn]_vars

-----------------------------------------------------------------------------
(* Claims about the policy gate.                                           *)

\* C1: in every channel handler a message whose policy check returned
\* allowed=false is dropped: no route resolution, media download, session
\* record, dispatch or reply send is performed for it.
C1_PolicyDeniedIsDropped ==
    h.allowed = "no" => (h.effects = <<>> /\ h.pc = "done")

\* A rejected message whose handler has returned, on a channel that has
\* group chats and on one that has not.
C1_Witness ==
    /\ h.allowed = "no"
    /\ h.pc = "done"
    /\ h.chan = "wecom-app"
    /\ h.cfg.dmPolicy = "allowlist"

\* The group policy and the mention requirement in force on a channel.
GroupPolicyInForce(chan, cfg) ==
    OrElse(cfg.groupPolicy, IF chan = "dingtalk" THEN "allowlist" ELSE "open")

RequireMentionInForce(cfg) == FlagOrElse(cfg.requireMention, TRUE)

\* C2: a group message is dispatched to the Host only if groupPolicy is not
\* disabled, the group is in groupAllowFrom under allowlist, and
\* requireMention is false or the bot was mentioned in that message.
C2_GroupAdmission ==
    (h.msg.chatType = "group" /\ "dispatch" \in Effects) =>
        /\ GroupPolicyInForce(h.chan, h.cfg) # "disabled"
        /\ (GroupPolicyInForce(h.chan, h.cfg) = "allowlist"
               => h.msg.conversationId \in h.cfg.groupAllowFrom)
        /\ (~RequireMentionInForce(h.cfg) \/ BotMentioned(h.msg))

-----------------------------------------------------------------------------
(* Claims about the AI card streamer.                                      *)

LogIdx == 1..Len(card.log)

IsStream(e) == e.api = "stream"

IsInputing(e) == e.api = "status" /\ e.flowStatus = "INPUTING"

IsFinished(e) == e.api = "status" /\ e.flowStatus = "FINISHED"

IsFailure(e) == e.res \in {"fail", "http", "throw"}

\* C3: no streaming PUT is issued on a card before a status PUT setting
\* flowStatus=INPUTING on that card has succeeded.
C3_InputingPrecedesStream ==
    \A j \in LogIdx :
        IsStream(card.log[j]) =>
            \E i \in 1..(j - 1) :
                IsInputing(card.log[i]) /\ card.log[i].res = "ok"

\* An intermediate update from deliver has been streamed and acknowledged.
C3_Witness ==
    \E j \in LogIdx :
        /\ IsStream(card.log[j])
        /\ card.log[j].by = "deliver"
        /\ card.log[j].res = "ok"
        /\ IsInputing(card.log[1])

\* C4: the FINISHED status PUT is issued only directly after the
\* isFinalize=true streaming PUT of the same finishAICard call, carrying the
\* same content, has succeeded.
C4_FinishedAfterFinalize ==
    \A j \in LogIdx :
        IsFinished(card.log[j]) =>
            /\ j > 1
            /\ IsStream(card.log[j - 1])
            /\ card.log[j - 1].isFinalize
            /\ card.log[j - 1].res = "ok"
            /\ card.log[j - 1].by = card.log[j].by
            /\ card.log[j - 1].content = card.log[j].content

\* The reply was dispatched without error and the card reached FINISHED.
C4_Witness ==
    /\ run.pc = "done"
    /\ ~run.error
    /\ run.accumulated # <<>>
    /\ \E j \in LogIdx : IsFinished(card.log[j]) /\ card.log[j].res = "ok"

\* C5: once a finalize streaming PUT has succeeded on a card, a further
\* streamAICard(card, _, true) issues no card API call.
C5_FinalizeIsTerminal ==
    \A i, j \in LogIdx :
        (/\ i < j
         /\ IsStream(card.log[i])
         /\ card.log[i].isFinalize
         /\ card.log[i].res = "ok")
        => ~(IsStream(card.log[j]) /\ card.log[j].isFinalize)

\* The text deliver had accumulated when entry e was issued: deliver call k
\* issues after appending chunk k; finishAICard runs after the last chunk.
AccumulatedAt(e) ==
    ConcatNonBlank(IF e.by = "deliver"
                   THEN SubSeq(run.delivered, 1, e.k)
                   ELSE run.delivered)

\* C6 as stated: every streaming PUT carries isFull=true and the full
\* accumulated reply text.
C6_EveryStreamCarriesAccumulated ==
    \A j \in LogIdx :
        IsStream(card.log[j]) =>
            /\ card.log[j].isFull
            /\ card.log[j].content = AccumulatedAt(card.log[j])

\* C6: every streaming PUT carries isFull=true; those issued by deliver and
\* by the finishAICard call after dispatch carry the full accumulated text,
\* the one issued by the catch block's finishAICard carries the error banner.
C6_StreamContent ==
    \A j \in LogIdx :
        IsStream(card.log[j]) =>
            /\ card.log[j].isFull
            /\ card.log[j].content =
                 IF card.log[j].by = "errfinish"
                 THEN Banner
                 ELSE AccumulatedAt(card.log[j])

\* The second chunk was skipped by the throttle and the finalize call
\* carried both chunks.
C6_Witness ==
    /\ Len(run.delivered) = 2
    /\ \A k \in 1..2 : ~IsBlank(run.delivered[k])
    /\ \A j \in LogIdx : card.log[j].by = "deliver" => card.log[j].k = 1
    /\ \E j \in LogIdx :
          /\ IsStream(card.log[j])
          /\ card.log[j].by = "finish"
          /\ Len(card.log[j].content) = 2
          /\ card.log[j].res = "ok"

\* C7 as stated: any two consecutive streaming PUTs on the card are issued
\* at least 300 ms apart.
C7_ConsecutiveStreamsApart ==
    \A i, j \in LogIdx :
        (/\ i < j
         /\ IsStream(card.log[i])
         /\ IsStream(card.log[j])
         /\ \A m \in (i + 1)..(j - 1) : ~IsStream(card.log[m]))
        => card.log[j].at - card.log[i].at >= updateInterval

\* C7: when the Host awaits each deliver call, an intermediate update is
\* streamed only if deliver read the clock at least 300 ms after the
\* reading of the last intermediate update that succeeded.
C7_IntermediateUpdatesThrottled ==
    \A i, j \in LogIdx :
        (/\ i < j
         /\ IsStream(card.log[i]) /\ card.log[i].by = "deliver"
         /\ IsStream(card.log[j]) /\ card.log[j].by = "deliver"
         /\ card.log[i].res = "ok")
        => card.log[j].readNow - card.log[i].readNow >= updateInterval

\* Two intermediate updates were streamed and acknowledged.
C7_Witness ==
    \E i, j \in LogIdx :
        /\ i < j
        /\ IsStream(card.log[i]) /\ card.log[i].by = "deliver"
        /\ IsStream(card.log[j]) /\ card.log[j].by = "deliver"
        /\ card.log[i].res = "ok"
        /\ card.log[j].res = "ok"

\* C8: at no time are two card API calls for the card in flight.
C8_SingleWriter == Cardinality(InFlight) <= 1

\* C9: when the handler has returned and some card API call failed, the
\* card was finished with the error banner and the fallback loop sent, or
\* tried to send, the plain message.
C9_CardFailureFallsBack ==
    (/\ run.pc = "done"
     /\ \E i \in LogIdx : IsFailure(card.log[i]))
    => /\ \E j \in LogIdx : card.log[j].by = "errfinish"
       /\ (run.fallback # <<>> \/ run.sendFailed)

-----------------------------------------------------------------------------
(* Claims about inbound media downloads.                                   *)

\* C10: every file a download routine has written has size <= maxBytes.
C10_WrittenFileWithinLimit ==
    dl.file # NoFile => dl.file <= dl.maxBytes

\* The routines that are given a size limit.
SizeLimited ==
    {"downloadDingTalkFile", "downloadWecomMediaToFile", "fetchMediaFromUrl"}

C12_LimitIsInclusive ==
    (dl.routine \in SizeLimited /\ dl.pc \in {"saved", "rejected"})
    => /\ (dl.pc = "saved") <=> (dl.size <= dl.maxBytes)
       /\ (dl.pc = "saved" /\ dl.routine # "fetchMediaFromUrl")
             => dl.file = dl.size
       /\ dl.pc = "rejected" => dl.file = NoFile

\* A body of exactly maxBytes, sent without Content-Length, was written.
C12_Witness ==
    /\ dl.routine = "downloadDingTalkFile"
    /\ ~dl.hasLength
    /\ dl.size = dl.maxBytes
    /\ dl.pc = "saved"
    /\ dl.file = dl.maxBytes

-----------------------------------------------------------------------------
(* Claims about the access-token cache.                                    *)

\* C13: every token getAccessToken returns has now < expiresAt at the time
\* of return; a token taken from the cache is the entry's token, so an
\* entry with now >= expiresAt is never returned and leads to a fresh
\* gettoken request instead.
C13_ReturnedTokenUnexpired ==
    /\ tok.ret.kind = "token" => tok.ret.at < tok.ret.expiresAt
    /\ \A p \in tok.pending :
          p.seen.token = 0 \/ p.at >= p.seen.expiresAt

\* A call found an entry whose expiry had passed and asked for a new token.
C13_Witness ==
    \E p \in tok.pending : p.seen.token # 0 /\ p.at >= p.seen.expiresAt

\* C14: a step of getAccessToken issues a gettoken request only on a miss,
\* and then exactly one; a return from the cache issues no request and
\* leaves the cache alone; a return after a gettoken response has stored
\* {token, now + 7200 s - 5 min} under the call's key.
C14_RequestOnlyOnMiss ==
    [][/\ tok'.requests # tok.requests =>
            /\ tok'.requests = tok.requests + 1
            /\ \E p \in tok'.pending \ tok.pending :
                  LET e == tok.cache[p.key] IN
                  e.token = 0 \/ now >= e.expiresAt
       /\ (tok'.ret # tok.ret /\ tok'.ret.kind = "token") =>
            IF tok'.ret.fromCache
            THEN /\ tok'.requests = tok.requests
                 /\ tok'.cache = tok.cache
                 /\ tok'.ret.token = tok.cache[tok'.ret.key].token
            ELSE /\ tok'.requests = tok.requests
                 /\ \E p \in tok.pending : p.call = tok'.ret.call
                 /\ tok'.cache =
                      [tok.cache EXCEPT ![tok'.ret.key] =
                         [token |-> tok'.ret.token,
                          expiresAt |-> now + 7200 * 1000 - 5 * 60 * 1000]]
    ]_vars

\* Two calls for one key, one gettoken request: the second was a hit.
C14_Witness ==
    /\ tok.ret.kind = "token"
    /\ tok.ret.fromCache
    /\ tok.ret.call = 2
    /\ tok.requests = 1
    /\ tok.ret.key = <<"corpA", "default">>

-----------------------------------------------------------------------------
(* Claims about the outbound senders.                                      *)

IsSendRequest(r) == r = "send"

\* C15: when the platform answers a send with the token-expired error, the
\* cached token is evicted and the send is retried exactly once with a
\* newly issued token: the call's requests are send, gettoken, send.
C15_ExpiredTokenEvictedAndRetried ==
    (out.pc = "done" /\ out.errcode = "expired")
    => /\ Len(SelectSeq(out.requests, IsSendRequest)) = 2
       /\ \E i \in 1..Len(out.requests) :
             /\ out.requests[i] = "gettoken"
             /\ \E j \in 1..(i - 1) : out.requests[j] = "send"

\* C16: for an account that lacks corpId, corpSecret or agentId, a call of
\* an active-send entry point has ended with a failure result and has made
\* no network request, gettoken included.
C16_NoRequestWithoutCredentials ==
    (/\ out.entry \in WecomAppEntries
     /\ \/ out.account.corpId = ""
        \/ out.account.corpSecret = ""
        \/ out.account.agentId = "unset")
    => /\ out.pc = "done"
       /\ out.result = "fail"
       /\ out.requests = <<>>
       /\ \A p \in tok.pending : p.call # tok.ncalls

\* sendMedia was called for an account that has no agentId.
C16_Witness ==
    /\ out.entry = "outbound.sendMedia"
    /\ out.account = [corpId |-> "corpA", corpSecret |-> "s3cret",
                      agentId |-> "unset"]
    /\ out.pc = "done"
    /\ out.result = "fail"

\* C17: a call of outbound.sendText or outbound.sendMedia that has made a
\* request to the platform never ends with an exception reaching the caller.
C17_OutboundNeverThrows ==
    (/\ out.entry \in {"outbound.sendText", "outbound.sendMedia",
                       "feishuOutbound.sendText", "feishuOutbound.sendMedia"}
     /\ out.requests # <<>>)
    => out.result # "throw"

-----------------------------------------------------------------------------
(* Claims about the reply pipeline.                                        *)

\* C18: an error raised while one inbound message is handled (route
\* resolution, media download, session recording, dispatch, reply delivery)
\* never propagates out of the channel's inbound handler: the handler's
\* promise never rejects.
C18_HandlerNeverRejects ==
    rp.outcome # "threw"

WireIdx == 1..Len(rp.wire)

IsStart(i) == rp.wire[i].ev = "start"

\* C19: the chunk sends of one inbound message reach the platform in the
\* order the Host produced the payloads and deliver cut the chunks, and a
\* send is started only after the previous one has completed.
C19_ChunksSentInOrder ==
    /\ \A i \in WireIdx :
          (IsStart(i) /\ i < Len(rp.wire)) =>
              /\ ~IsStart(i + 1)
              /\ rp.wire[i + 1].p = rp.wire[i].p
              /\ rp.wire[i + 1].c = rp.wire[i].c
    /\ \A i, j \in WireIdx :
          (i < j /\ IsStart(i) /\ IsStart(j)) =>
              \/ rp.wire[i].p < rp.wire[j].p
              \/ rp.wire[i].p = rp.wire[j].p /\ rp.wire[i].c < rp.wire[j].c

\* Two chunks of the first payload and a chunk of the second payload have
\* all been sent.
C19_Witness ==
    /\ rp.chan \in SendingChannels
    /\ \E i, j, k \in WireIdx :
          /\ i < j /\ j < k
          /\ rp.wire[i] = [ev |-> "ok", p |-> 1, c |-> 1, note |-> "none"]
          /\ rp.wire[j] = [ev |-> "ok", p |-> 1, c |-> 2, note |-> "none"]
          /\ rp.wire[k] = [ev |-> "ok", p |-> 2, c |-> 1, note |-> "none"]

\* The send of chunk c of payload p was started.
Started(p, c) == \E i \in WireIdx : IsStart(i) /\ rp.wire[i].p = p /\ rp.wire[i].c = c

\* The deliver call of payload p is over.
Delivered(p) == p < Len(rp.sizes) \/ (p = Len(rp.sizes) /\ rp.pc # "deliver")

\* C20: a failed chunk send is logged and does not interrupt the stream:
\* once the deliver call of a payload is over, every chunk of that payload
\* has been sent, and every failed send has left a log line.
C20_FailedChunkDoesNotInterrupt ==
    /\ \A p \in 1..Len(rp.sizes) :
          Delivered(p) => \A c \in 1..rp.sizes[p] : Started(p, c)
    /\ Cardinality({i \in WireIdx : rp.wire[i].ev = "fail"}) <= rp.logged

-----------------------------------------------------------------------------
(* Claims about the dispatch coordinator.                                  *)

EffectIdx(e) == {i \in 1..Len(h.effects) : h.effects[i] = e}

\* C21: for every dispatched message the coordinator steps run in order:
\* route resolution, then the inbound session record, then the reply
\* dispatch; and once the dispatch has completed markDispatchIdle has been
\* called exactly once, after the dispatch.
C21_CoordinatorStepsInOrder ==
    EffectIdx("dispatch") # {} =>
        /\ \E r \in EffectIdx("route"), s \in EffectIdx("session"),
              d \in EffectIdx("dispatch") : r < s /\ s < d
        /\ \A i \in EffectIdx("idle") : \A d \in EffectIdx("dispatch") : d < i
        /\ h.pc = "done" => Cardinality(EffectIdx("idle")) = 1

\* C22: recording the inbound session of a dispatched direct message also
\* updates the peer's last outbound route; a group message does not.
C22_DirectMessageUpdatesLastRoute ==
    EffectIdx("session") # {} =>
        (h.msg.chatType = "direct" <=> EffectIdx("lastRoute") # {})

-----------------------------------------------------------------------------
(* Claims about the QQ handler.                                            *)

QQEffects == {qq.effects[i] : i \in 1..Len(qq.effects)}

\* The attachments have been resolved with ASR enabled, a voice attachment
\* among them and no transcript obtained.
AsrFailed ==
    /\ qq.asr.enabled /\ qq.hasVoice /\ ~qq.hasTranscript
    /\ qq.idx > Len(qq.atts)

\* C23: a QQ message with a voice attachment for which ASR is enabled and
\* no transcript was obtained is answered with the fallback text, sent to
\* the conversation the message came from, and is not dispatched.
C23_AsrFailureFallsBack ==
    AsrFailed =>
        /\ "dispatch" \notin QQEffects
        /\ qq.pc = "done" =>
              /\ Len(qq.effects) >= 2
              /\ qq.effects[2] = "fallback:" \o ChatTarget(qq.type)

C23_Witness ==
    /\ AsrFailed
    /\ qq.asr.credentials
    /\ qq.pc = "done"
    /\ qq.type = "direct"
    /\ qq.effects = <<"route", "fallback:user">>

\* C24: a message with an empty body and no attachments is dispatched if
\* and only if it is a direct message or the bot was mentioned in it.  Every
\* message the QQ parsers yield is direct or carries mentionedBot = true.
C24_EmptyMessageDispatched ==
    (qq.pc = "done" /\ qq.admitted /\ Trim(qq.content) = ""
        /\ qq.atts = <<>> /\ qq.type \in {"direct", "group"}) =>
        "dispatch" \in QQEffects

-----------------------------------------------------------------------------
(* Claims about the media fallbacks.                                       *)

\* The failed sends of media URLs whose handling is over.
FailedMedia ==
    {i \in WireIdx :
        /\ rp.wire[i].ev = "fail"
        /\ rp.kinds[rp.wire[i].p] = "media"
        /\ ~(rp.fallback # "none" /\ i = Len(rp.wire))}

\* The fallback texts sent for the media URL whose send failed at entry i.
FallbacksOf(i) ==
    {j \in WireIdx :
        /\ j > i
        /\ rp.wire[j].ev = "fallback"
        /\ rp.wire[j].p = rp.wire[i].p
        /\ rp.wire[j].c = rp.wire[i].c}

\* C25: whenever the send of a media item of a reply fails, on any channel,
\* a text of the form "paperclip + URL" carrying that URL is sent in its
\* place.
C25_FailedMediaGetsLinkText ==
    \A i \in FailedMedia :
        \E j \in FallbacksOf(i) : rp.wire[j].note = "clip"

\* C26: when a QQ media send fails because generic files are unsupported
\* (file_type=4), exactly one fallback text is sent in its place, and it is
\* the one that explains the official limit and carries the file URL.
C26_UnsupportedFileGetsExplanation ==
    \A i \in FailedMedia :
        rp.wire[i].note = "file_type=4" =>
            /\ Cardinality(FallbacksOf(i)) = 1
            /\ \A j \in FallbacksOf(i) : rp.wire[j].note = "limit"

C26_Witness ==
    /\ rp.chan = "qqbot"
    /\ \E i \in FailedMedia :
          /\ rp.wire[i].note = "file_type=4"
          /\ \E j \in FallbacksOf(i) : rp.wire[j].note = "limit"

-----------------------------------------------------------------------------
(* Claims about the WeCom-App media routing.                               *)

VoiceFile == sm.ext \in {"amr", "speex", "wav", "mp3"} /\ sm.mime = "none"

\* C28: a voice file is routed as follows: .amr/.speex is sent as voice;
\* .wav/.mp3 is transcoded to .amr and sent as voice when
\* voiceTranscode.enabled is set and ffmpeg is present; in every other case
\* (transcode disabled, ffmpeg missing, remote URL, transcode failure) it is
\* sent as a file.
C28_VoiceRouting ==
    (sm.pc = "done" /\ VoiceFile) =>
        LET last == sm.sent[Len(sm.sent)] IN
        IF sm.ext \in {"amr", "speex"} THEN last = "voice:" \o sm.ext
        ELSE IF sm.enabled /\ sm.ffmpeg /\ ~sm.remote /\ sm.works
        THEN last = "voice:amr"
        ELSE last = "file"

-----------------------------------------------------------------------------
(* Claims about the WeCom-App accounts and gateway.                        *)

\* C29: after stopAccount(accountId) has completed no webhook target remains
\* registered for that account, until the account is started again.
C29_StoppedAccountHasNoRoute ==
    \A a \in AccountIds :
        gw.stopped[a] => ~\E t \in gw.targets : t.accountId = a

\* An account was started twice and then stopped while another account's
\* target stays registered.
C29_Witness ==
    /\ gw.stopped["alice"]
    /\ gw.nextId = 4
    /\ \E t \in gw.targets : t.accountId = "ghost"

\* C30: resolving an account id that is not present under
\* channels.wecom-app.accounts yields a disabled stub: enabled = false.
C30_UnknownAccountIsDisabled ==
    (gw.resolved.accountId # "none" /\ ~gw.resolved.listed) =>
        ~gw.resolved.enabled

-----------------------------------------------------------------------------
(* Claims about the account resolution.                                    *)

\* C31: the process environment can affect only the default account: for
\* any other account id the resolved credentials, configured and
\* canSendActive are what they are under an environment that sets nothing.
C31_EnvOnlyForDefaultAccount ==
    (fn.op = "resolveWecomAppAccount"
        /\ fn.resolved.accountId # DEFAULT_ACCOUNT_ID) =>
        fn.resolved = fn.unset

\* A non-default account without credentials of its own, resolved under an
\* environment that sets all five variables: it stays unconfigured.
C31_Witness ==
    /\ fn.op = "resolveWecomAppAccount"
    /\ fn.env = [ingress |-> "good", send |-> TRUE]
    /\ fn.resolved.accountId = "alice"
    /\ ~fn.resolved.configured /\ ~fn.resolved.canSendActive

\* C32: an account whose encodingAESKey does not decode to 32 bytes is
\* marked unconfigured, and startAccount registers no webhook target for it.
C32_BadKeyIsUnconfigured ==
    gw.resolved.ingress = "bad" =>
        /\ ~gw.resolved.configured
        /\ ~\E t \in gw.targets :
              t.accountId = gw.resolved.accountId /\ t.id = gw.nextId - 1

\* The live webhook targets of an account.
LiveTargets(state, accountId) ==
    {t \in state.targets : t.accountId = accountId}

\* C37: after any sequence of startAccount and stopAccount calls at most one
\* webhook target of an account is live, and right after a startAccount of
\* a configured account exactly one is live: the one that call registered.
C37_OneLiveRegistration ==
    /\ [](\A a \in AccountIds : Cardinality(LiveTargets(gw, a)) <= 1)
    /\ [][gw'.nextId # gw.nextId =>
            LiveTargets(gw', gw'.resolved.accountId) =
                {[id |-> gw.nextId, accountId |-> gw'.resolved.accountId]}]_vars

\* An account started a second time while its first target was live.
C37_Witness ==
    \E a \in AccountIds :
        /\ gw.hooks[a] >= 2
        /\ gw.running[a]
        /\ LiveTargets(gw, a) = {[id |-> gw.hooks[a], accountId |-> a]}

-----------------------------------------------------------------------------
(* Claims about target parsing.                                            *)

\* Ids and account ids made of plain characters only.
PlainIds == UNION {[1..n -> {"x"}] : n \in 1..MaxTargetLen}

\* C33: for a target of the shape [wecom-app:][user:|group:]id[@accountId]
\* resolveTarget returns channel "wecom-app", the account id after the "@"
\* and the id without any prefix; and whatever the target, a suffix is split
\* off as the account id only when it holds no ':' and no '/'.
C33_ResolveTargetStripsPrefixes ==
    fn.op = "resolveTarget" =>
        /\ \A pre \in {<<>>, <<"wecom-app:">>} :
           \A ty \in {<<>>, <<"user:">>, <<"group:">>} :
           \A id \in PlainIds :
           \A acc \in PlainIds \cup {<<>>} :
               fn.target = pre \o ty \o id
                               \o (IF acc = <<>> THEN <<>> ELSE <<"@">> \o acc)
                   => fn.result = [channel |-> "wecom-app",
                                   accountId |-> acc, to |-> id]
        /\ \A i \in 1..Len(fn.result.accountId) :
               fn.result.accountId[i] \notin
                   {"wecom-app:", "user:", "group:", "/"}

-----------------------------------------------------------------------------
(* Claims about chunking.                                                  *)

RECURSIVE JoinChunks(_)
JoinChunks(chunks) ==
    IF chunks = <<>> THEN <<>> ELSE Head(chunks) \o JoinChunks(Tail(chunks))

\* C34: wherever reply text is split for sending, the chunks joined in
\* order are the original text and every chunk is at most textChunkLimit
\* characters long.
C34_ChunksJoinAndFit ==
    fn.op = "chunk" =>
        /\ JoinChunks(fn.chunks) = fn.text
        /\ \A i \in 1..Len(fn.chunks) : Len(fn.chunks[i]) <= fn.limit

-----------------------------------------------------------------------------
(* Claims about the final content of the card.                             *)

\* C35: when a card reply is delivered as growing snapshots of one text
\* ("a", then "ab"; "Hi", "Hi, there", "Hi, there!" in the example), the
\* isFinalize=true streaming call and the FINISHED status PUT of the normal
\* path carry the last snapshot.
C35_FinalBodyIsLastSnapshot ==
    run.delivered = <<(<<"a">>), (<<"a", "b">>)>> =>
        \A j \in LogIdx :
            (/\ card.log[j].by = "finish"
             /\ \/ IsFinished(card.log[j])
                \/ IsStream(card.log[j]) /\ card.log[j].isFinalize)
            => card.log[j].content = <<"a", "b">>

\* C38: on every path through handleAICardStreaming a finishAICard call on
\* the created card is attempted before the handler returns.
C38_FinishAttemptedBeforeReturn ==
    run.pc = "done" =>
        \E j \in LogIdx : card.log[j].by \in {"finish", "errfinish"}

-----------------------------------------------------------------------------
(* Claims about payloads with text and media.                              *)

\* The sends of payload p that were acknowledged.
SentOf(p) == {i \in WireIdx : rp.wire[i].p = p /\ rp.wire[i].ev = "ok"}

\* C39: in DingTalk normal mode a reply payload with both text and media
\* URLs is delivered whole: once deliver has returned without a failed
\* send, more was sent than the media URLs alone, the text being at least
\* one message.
C39_TextAndMediaBothDelivered ==
    \A p \in 1..Len(rp.kinds) :
        (/\ rp.chan = "dingtalk"
         /\ rp.kinds[p] = "both"
         /\ p < Len(rp.kinds) \/ rp.pc \in {"dispatch", "done"}
         /\ ~\E i \in WireIdx : rp.wire[i].p = p /\ rp.wire[i].ev = "fail")
        => Cardinality(SentOf(p)) > rp.sizes[p]

-----------------------------------------------------------------------------
(* Claims about the API base URL.                                          *)

RECURSIVE StripTrailingSlashes(_)
StripTrailingSlashes(url) ==
    IF url # <<>> /\ url[Len(url)] = "/"
    THEN StripTrailingSlashes(SubSeq(url, 1, Len(url) - 1))
    ELSE url

\* C36: getAccessToken and sendWecomAppMessage send their request to
\* account.config.apiBaseUrl, trailing slashes removed, whenever it is
\* configured, and to https://qyapi.weixin.qq.com only when it is missing.
C36_RequestsGoToApiBaseUrl ==
    fn.op = "url" =>
        Head(fn.url) =
            (IF fn.apiBaseUrl = <<>> THEN "https://qyapi.weixin.qq.com"
             ELSE Head(StripTrailingSlashes(fn.apiBaseUrl)))

-----------------------------------------------------------------------------
(* Claims about the retention of inbound media.                            *)

\* C40: with inboundMedia.keepDays = 0 the clean-up deletes only files of
\* date directories before today; a file archived today, the one of the
\* current message included, is not deleted.
C40_TodayIsKeptAtKeepDaysZero ==
    (/\ fn.op = "prune"
     /\ fn.keepDays = 0
     /\ fn.dirTime \div DayMs = fn.nowMs \div DayMs)
    => ~fn.deleted

=============================================================================
